---- MODULE Spec2Model ----
(***************************************************************************)
(* Verification model of the Codebase Time Machine core:                   *)
(*   - the Repository Store (lib/database.ts),                             *)
(*   - the History Extractor (GitAnalyzer.analyzeCommitHistory and         *)
(*     analyzeFileChanges), one step per await,                            *)
(*   - the Response Interpreter (LLMAnalyzer.parse*Response) and the       *)
(*     three analysis entry points.                                        *)
(* Texts are sequences of symbols: structural JSON characters are single   *)
(* symbols, and a literal of the source ("Analysis Error") is one symbol.  *)
(***************************************************************************)
EXTENDS Integers, Sequences, FiniteSets, TLC

VARIABLES
    repositories,   \* table repositories (set of rows)
    commits,        \* table commits (set of rows)
    fileChanges,    \* table file_changes (set of rows)
    analyses,       \* table analysis (set of rows)
    nextId,         \* source of fresh row ids (Date.now() + Math.random())
    nCommits,       \* number of commits in the working repository's history
    unreadable,     \* commits whose objects cannot be read by git diff
    unlistable,     \* commits whose name-status diff fails
    tasks,          \* the analyzeCommitHistory invocations in flight
    started,        \* number of walks started so far
    finished,       \* the walks that have ended, in order of ending
    last,           \* outcome of the last analysis entry-point call
    rawText,        \* text handed to the Response Interpreter
    parsed,         \* what the Response Interpreter returned for it
    args,           \* arguments of the last call of a function studied alone
    ret             \* what that call returned

vars == <<repositories, commits, fileChanges, analyses, nextId, nCommits,
          unreadable, unlistable, tasks, started, finished, last, rawText, parsed,
          args, ret>>

storeVars == <<repositories, commits, fileChanges, analyses, nextId>>
gitVars == <<nCommits, unreadable, unlistable>>
parseVars == <<rawText, parsed>>
callVars == <<args, ret>>

-----------------------------------------------------------------------------
(* Bounds *)

MaxCommits == 4
MaxRepos == 2
MaxRuns == 2
MaxWorkers == 1
MaxUnreadable == 1
MaxTextLen == 3
MaxAnalyses == 2
MaxOver == 1
MaxTreeLen == 3
MaxDecisions == 2
MaxInterleaved == 3

-----------------------------------------------------------------------------
(* Program constants *)

DefaultLimit == 1000

NULL == "NULL"

Min(a, b) == IF a < b THEN a ELSE b

Take(s, n) == SubSeq(s, 1, Min(n, Len(s)))

\* the elements of a sequence
Range(s) == {s[k] : k \in 1..Len(s)}

\* String.prototype.toLowerCase on the symbols that have upper case letters
toLowerCase(sym) ==
    CASE sym = "README" -> "readme"
      [] sym = "Dockerfile" -> "dockerfile"
      [] sym = ".TS" -> ".ts"
      [] sym = ".MD" -> ".md"
      [] sym = "Refactor" -> "refactor"
      [] OTHER -> sym

RECURSIVE SumSeq(_)
SumSeq(s) == IF s = <<>> THEN 0 ELSE Head(s) + SumSeq(Tail(s))

-----------------------------------------------------------------------------
(* The working repository as git reports it.  Commit 1 is the root commit, *)
(* commit c > 1 has the single parent c - 1; the log lists newest first.   *)

HashOf(c) == "h" \o ToString(c)

ParentsOf(c) == IF c = 1 THEN <<>> ELSE <<HashOf(c - 1)>>

\* the decorations git log prints for a commit (commit.refs), as symbols
RefsOf(c) ==
    IF c = nCommits THEN <<"HEAD -> main", ", ", "origin/main">> ELSE <<>>

\* the message of a commit, as symbols
MessageOf(c) ==
    CASE c % 4 = 0 -> <<"Refactor", " the store">>
      [] c % 4 = 2 -> <<"fix", " typo">>
      [] OTHER -> <<"message">>

\* a digit of the decimal numeral of c
Digit(c, p) == ToString((c \div (10 ^ p)) % 10)

\* the 40 characters of the name of commit c, which HashOf(c) abbreviates
HashChars(c) ==
    [k \in 1..40 |-> IF k = 1 THEN "h" ELSE IF k <= 4 THEN Digit(c, 4 - k) ELSE "0"]

\* the files a root commit contains
TreeFiles(c) == IF c = 1 THEN <<"f1", "f2">> ELSE <<>>

\* per-file changes of commit c against its first parent:
\* parts = the tab-separated fields of the --name-status line,
\* ins/del = the fields of the first --numstat line for parts[2]
FileDiffs(c) ==
    CASE c = 1 ->
           << [parts |-> <<"A", "f1">>, ins |-> "2", del |-> "0"],
              [parts |-> <<"A", "f2">>, ins |-> "1", del |-> "0"] >>
      [] c > 1 /\ c % 3 = 2 ->
           << [parts |-> <<"M", "f1">>, ins |-> "1", del |-> "1"],
              [parts |-> <<"R100", "f2", "f3">>, ins |-> "0", del |-> "1"] >>
      [] c > 1 /\ c % 3 = 0 ->
           << [parts |-> <<"D", "f1">>, ins |-> "0", del |-> "2"],
              [parts |-> <<"A", "f4">>, ins |-> "-", del |-> "-"] >>
      [] OTHER ->
           << [parts |-> <<"T", "f3">>, ins |-> "1", del |-> "0"] >>

\* git log --all --stat --max-count=limit
GitLog(limit) == Take([i \in 1..nCommits |-> nCommits + 1 - i], limit)

\* `${hash}^` names nothing for a commit without a parent, and an unreadable
\* object makes any diff of the commit fail
DiffFails(c) == ParentsOf(c) = <<>> \/ c \in unreadable

DigitVal == [s \in {"0", "1", "2"} |-> CASE s = "0" -> 0 [] s = "1" -> 1 [] OTHER -> 2]

\* parseInt(x) || 0
ParseIntOr0(s) == IF s \in DOMAIN DigitVal THEN DigitVal[s] ELSE 0

\* git.diffSummary([hash^, hash])
DiffSummary(c) ==
    [files |-> Len(FileDiffs(c)),
     insertions |-> SumSeq([k \in 1..Len(FileDiffs(c)) |-> ParseIntOr0(FileDiffs(c)[k].ins)]),
     deletions |-> SumSeq([k \in 1..Len(FileDiffs(c)) |-> ParseIntOr0(FileDiffs(c)[k].del)])]

\* git.diff([hash^, hash, '--name-status']) split into lines and fields
NameStatus(c) == [k \in 1..Len(FileDiffs(c)) |-> FileDiffs(c)[k].parts]

\* first line of git.diff([hash^, hash, '--numstat', '--', filePath])
NumStatLine(c, k) ==
    <<FileDiffs(c)[k].ins, FileDiffs(c)[k].del, FileDiffs(c)[k].parts[2]>>

RECURSIVE SplitOn(_, _, _)
\* String.split(sep) on a symbol sequence; cur is the piece being read
SplitOn(s, sep, cur) ==
    IF s = <<>> THEN <<cur>>
    ELSE IF Head(s) = sep THEN <<cur>> \o SplitOn(Tail(s), sep, "")
    ELSE SplitOn(Tail(s), sep, cur \o Head(s))

-----------------------------------------------------------------------------
(* Repository Store *)

RepoIds == {r.id : r \in repositories}

\* Database.getRepository: the rows with that id, none when it is not stored
getRepository(id) == {r \in repositories : r.id = id}

\* a plain INSERT with no constraint on (repo_id, hash)
createCommitRowsInserting(rows, id, commit) == rows \cup {[id |-> id] @@ commit}

\* Database.createCommit: INSERT OR REPLACE under UNIQUE(repo_id, hash);
\* the conflicting row is deleted and the new row, with its new id, inserted.
\* Foreign keys are declared but never switched on, so file_changes rows of
\* the deleted row stay as they are.
createCommitRows(rows, id, commit) ==
    {x \in rows : ~(x.repo_id = commit.repo_id /\ x.hash = commit.hash)}
        \cup {[id |-> id] @@ commit}

\* Database.createFileChange: plain INSERT
createFileChangeRows(rows, id, fc) == rows \cup {[id |-> id] @@ fc}

CommitsOf(repoId) == {x \in commits : x.repo_id = repoId}

FileChangesOf(commitId) == {f \in fileChanges : f.commit_id = commitId}

-----------------------------------------------------------------------------
(* History Extractor *)

\* the walks that can be in flight at one time
Workers == 1..MaxWorkers

NoData == [repo_id |-> 0, hash |-> "", author |-> "", email |-> "", date |-> 0,
           message |-> <<>>, files_changed |-> 0, insertions |-> 0,
           deletions |-> 0, parents |-> <<>>]

IdleTask == [pc |-> "idle", repo |-> 0, path |-> "", limit |-> 0, log |-> <<>>, i |-> 0,
             data |-> NoData, saved |-> 0, j |-> 0, solo |-> TRUE, tried |-> <<>>]

Active(t) == tasks[t].pc # "idle"

\* the log is walked from its last entry to its first
CurFromOldest(t) == tasks[t].log[Len(tasks[t].log) + 1 - tasks[t].i]

\* the commit the task is working on
Cur(t) == tasks[t].log[tasks[t].i]

\* lines 192-203: the commit record built from the log entry
commitDataOf(repoId, c) ==
    [repo_id |-> repoId, hash |-> HashOf(c), author |-> "author",
     email |-> "author@example.com", date |-> c, message |-> MessageOf(c),
     files_changed |-> 0, insertions |-> 0, deletions |-> 0,
     parents |-> IF RefsOf(c) # <<>> THEN SplitOn(RefsOf(c), ", ", "") ELSE <<>>]

\* the for loop leaves out the entry after the one it has worked on
AdvanceSkipping(tk) ==
    IF tk.i + 1 < Len(tk.log)
    THEN [tk EXCEPT !.i = tk.i + 2, !.pc = "diffSummary", !.j = 0]
    ELSE [tk EXCEPT !.pc = "done"]

\* the for loop moves to the next log entry, or the walk completes
Advance(tk) ==
    IF tk.i < Len(tk.log)
    THEN [tk EXCEPT !.i = tk.i + 1, !.pc = "diffSummary", !.j = 0]
    ELSE [tk EXCEPT !.pc = "done"]

\* the failure of one commit ends the walk
OnCommitErrorRethrows(tk) == [tk EXCEPT !.pc = "raised"]

\* lines 217-220: the catch around one commit logs and continues
OnCommitError(tk) == Advance(tk)

\* lines 283-285: the catch of analyzeFileChanges logs and returns
OnFileChangesError(tk) == Advance(tk)

\* the switch has no case for a rename
changeTypeOfNoRename(status) ==
    CASE status \in {"A"} -> "added"
      [] status \in {"D"} -> "deleted"
      [] OTHER -> "modified"

\* switch (status[0])
changeTypeOf(status) ==
    CASE status \in {"A"} -> "added"
      [] status \in {"M"} -> "modified"
      [] status \in {"D"} -> "deleted"
      [] status \in {"R100"} -> "renamed"
      [] OTHER -> "modified"

\* the record kept of a walk that has ended: how it ended, its limit, the
\* log it walked, the commits it worked on in the order of its turns, and the
\* Commit rows of its repository at that moment
Ended(tk) ==
    [outcome |-> tk.pc, repo |-> tk.repo, log |-> tk.log, solo |-> tk.solo,
     limit |-> tk.limit, tried |-> tk.tried,
     snap |-> {x \in commits : x.repo_id = tk.repo}]

\* the route awaits the walk inside its try: a rejected walk reaches the
\* outer catch and the caller gets the 500 response
OnWalkEndAwaited(response, tk) ==
    IF tk.pc = "rejected" /\ response.fn = "upload"
    THEN [response EXCEPT !.status = 500, !.success = FALSE]
    ELSE response

\* upload/route.ts lines 167-169 and 249-251: the walk's promise is not
\* awaited and its rejection is only logged; the response of the request
\* that started the walk is what it was
OnWalkEnd(response, tk) == response

\* a step of walk t leaves it as tk: an ended walk frees its worker
Settle(t, tk) ==
    IF tk.pc \in {"done", "rejected", "raised"}
    THEN /\ finished' = Append(finished, Ended(tk))
         /\ tasks' = [tasks EXCEPT ![t] = IdleTask]
         /\ ret' = OnWalkEnd(ret, tk)
    ELSE /\ tasks' = [tasks EXCEPT ![t] = tk]
         /\ UNCHANGED <<finished, ret>>

FreeWorker == CHOOSE t \in Workers : ~Active(t) /\ \A u \in Workers : ~Active(u) => t <= u

\* a new walk for repoId; walks of one repository that overlap are marked
StartTask(repoId, path, limit) ==
    LET overlap == \E u \in Workers : Active(u) /\ tasks[u].repo = repoId
    IN /\ \E t \in Workers : ~Active(t)
       /\ started < MaxRuns
       /\ started' = started + 1
       /\ tasks' = [u \in Workers |->
            IF u = FreeWorker
            THEN [IdleTask EXCEPT !.pc = "log", !.repo = repoId, !.path = path,
                                  !.limit = limit,
                                  !.solo = ~overlap]
            ELSE IF Active(u) /\ tasks[u].repo = repoId
                 THEN [tasks[u] EXCEPT !.solo = FALSE]
                 ELSE tasks[u]]
       /\ UNCHANGED finished

\* git.log outside a repository throws and analyzeRepository goes on without
\* a history
HistoryUnguarded == [total |-> 0, authors |-> <<>>]

\* analyzeRepository lines 51-55: the catch around git.log and
\* getUniqueAuthors leaves the empty log and the one author 'Unknown'
HistoryFallback == [total |-> 0, authors |-> <<"Unknown">>]

\* analyzeRepository lines 43-56: git.log(['--all', '--oneline']) and the
\* authors of the log; every commit of the working repository has one author
HistoryOf(path) ==
    IF path = "repo" THEN [total |-> nCommits, authors |-> <<"author">>]
    ELSE HistoryFallback

\* analyzeRepository lines 58-67: the Repository row handed to createRepository
RepositoryRow(id, path, history) ==
    [id |-> id, name |-> "name", path |-> path,
     last_analyzed |-> NULL, total_commits |-> history.total]

\* upload/route.ts lines 171-180 and 253-262: the body of the 200 response
UploadResponse(row, history) ==
    [fn |-> "upload", status |-> 200, success |-> TRUE, repository |-> row,
     totalCommits |-> history.total, authors |-> history.authors]

\* upload POST: analyzeRepository creates the Repository row, then the walk
\* is started without being awaited and the response is returned
Upload(path) ==
    /\ Cardinality(repositories) < MaxRepos
    /\ LET row == RepositoryRow(nextId, path, HistoryOf(path))
       IN /\ repositories' = repositories \cup {row}
          /\ ret' = UploadResponse(row, HistoryOf(path))
    /\ args' = [fn |-> "upload", path |-> path]
    /\ StartTask(nextId, path, DefaultLimit)
    /\ nextId' = nextId + 1
    /\ UNCHANGED <<commits, fileChanges, analyses, gitVars, last, parseVars>>

\* the values of limit that list different logs
Limits == (1..(nCommits - 1)) \cup {DefaultLimit}

\* analyzeCommitHistory(repoId, limit) called again for a stored repository
ReRun(r, limit) ==
    /\ r \in repositories
    /\ StartTask(r.id, r.path, limit)
    /\ UNCHANGED <<storeVars, gitVars, last, parseVars, callVars>>

\* line 187: git.log; outside a repository it rejects and the walk ends
LogStep(t) ==
    /\ tasks[t].pc = "log"
    /\ LET tk == tasks[t]
           log == GitLog(tk.limit)
       IN Settle(t, IF tk.path # "repo" THEN [tk EXCEPT !.pc = "rejected"]
                    ELSE IF log = <<>> THEN [tk EXCEPT !.pc = "done"]
                    ELSE [tk EXCEPT !.log = log, !.i = 1, !.pc = "diffSummary"])
    /\ UNCHANGED <<storeVars, gitVars, last, parseVars, args, started>>

\* lines 192-209: build commitData, await diffSummary
DiffSummaryStep(t) ==
    /\ tasks[t].pc = "diffSummary"
    /\ LET c == Cur(t)
           tk == [tasks[t] EXCEPT !.tried = Append(@, c)]
           d == DiffSummary(c)
       IN Settle(t, IF DiffFails(c) THEN OnCommitError(tk)
                    ELSE [tk EXCEPT !.pc = "createCommit",
                                    !.data = [commitDataOf(tk.repo, c) EXCEPT
                                                !.files_changed = d.files,
                                                !.insertions = d.insertions,
                                                !.deletions = d.deletions]])
    /\ UNCHANGED <<storeVars, gitVars, last, parseVars, args, started>>

\* line 212: db.createCommit(commitData)
CreateCommitStep(t) ==
    /\ tasks[t].pc = "createCommit"
    /\ commits' = createCommitRows(commits, nextId, tasks[t].data)
    /\ nextId' = nextId + 1
    /\ tasks' = [tasks EXCEPT ![t] = [@ EXCEPT !.saved = nextId, !.pc = "fileChanges"]]
    /\ UNCHANGED <<repositories, fileChanges, analyses, gitVars, last, parseVars, callVars,
                   started, finished>>

\* the next line of the name-status listing with at least two fields
NextLine(lines, j) ==
    IF \E k \in (j + 1)..Len(lines) : Len(lines[k]) >= 2
    THEN CHOOSE k \in (j + 1)..Len(lines) :
            /\ Len(lines[k]) >= 2
            /\ \A m \in (j + 1)..(k - 1) : Len(lines[m]) < 2
    ELSE 0

\* lines 232-255 and 274-281: the FileChange row of line j of the listing,
\* with the counts of lines 257-271 read from the file's numstat line
fileChangeOf(commitId, c, j) ==
    LET parts == NameStatus(c)[j]
        stat == NumStatLine(c, j)
    IN [commit_id |-> commitId,
        file_path |-> parts[2],
        change_type |-> changeTypeOf(parts[1]),
        insertions |-> ParseIntOr0(stat[1]),
        deletions |-> ParseIntOr0(stat[2]),
        old_path |-> IF Len(parts) >= 3 THEN parts[3] ELSE NULL]

\* analyzeFileChanges, one turn of its loop: on the first turn the
\* name-status listing is read (lines 228-229); then the numstat of the next
\* line is read and its row is written by db.createFileChange (line 274).
\* Reading git commutes with every step of another walk, so the reads are
\* taken together with the write that follows them.
FileChangeStep(t) ==
    /\ tasks[t].pc = "fileChanges"
    /\ LET tk == tasks[t]
           c == Cur(t)
           j == NextLine(NameStatus(c), tk.j)
       IN IF tk.j = 0 /\ (DiffFails(c) \/ c \in unlistable)
          THEN /\ Settle(t, OnFileChangesError(tk))
               /\ UNCHANGED <<fileChanges, nextId>>
          ELSE IF j = 0
          THEN /\ Settle(t, Advance(tk))
               /\ UNCHANGED <<fileChanges, nextId>>
          ELSE /\ fileChanges' = createFileChangeRows(fileChanges, nextId,
                                        fileChangeOf(tk.saved, c, j))
               /\ nextId' = nextId + 1
               /\ Settle(t, IF NextLine(NameStatus(c), j) = 0 THEN Advance(tk)
                            ELSE [tk EXCEPT !.j = j])
    /\ UNCHANGED <<repositories, commits, analyses, gitVars, last, parseVars, args, started>>

-----------------------------------------------------------------------------
(* JSON texts and values.  A text is a sequence of symbols.  A value is    *)
(* the preorder list of its nodes: a node has a tag t, the symbols s of a  *)
(* string, number, literal or key, and the number n of its children (the   *)
(* items of an array, the keys of an object, the one value of a key).      *)

Quote == "\""
Backslash == "\\"
WS == {" "}
Digits == {"0", "1", "2", "3", "4", "5", "6", "7", "8", "9"}
Literals == {"null", "true", "false"}

Node(t, s, n) == [t |-> t, s |-> s, n |-> n]

RECURSIVE Concat(_)
Concat(ss) == IF ss = <<>> THEN <<>> ELSE Head(ss) \o Concat(Tail(ss))

Str(s) == <<Node("str", s, 0)>>
Arr(items) == <<Node("arr", <<>>, Len(items))>> \o Concat(items)
Obj(members) ==
    <<Node("obj", <<>>, Len(members))>>
        \o Concat([k \in 1..Len(members) |->
                     <<Node("key", members[k].k, 1)>> \o members[k].v])

\* assignment of a property: a repeated key keeps its place and takes the
\* later value
SetMember(members, key, v) ==
    IF \E k \in 1..Len(members) : members[k].k = key
    THEN [k \in 1..Len(members) |->
            IF members[k].k = key THEN [members[k] EXCEPT !.v = v] ELSE members[k]]
    ELSE Append(members, [k |-> key, v |-> v])

RECURSIVE SubtreeEnd(_, _), SkipSubtrees(_, _, _), ItemsFrom(_, _, _)
\* the position after the subtree rooted at position p
SubtreeEnd(v, p) == SkipSubtrees(v, p + 1, v[p].n)
SkipSubtrees(v, p, n) == IF n = 0 THEN p ELSE SkipSubtrees(v, SubtreeEnd(v, p), n - 1)
ItemsFrom(v, p, n) ==
    IF n = 0 THEN <<>>
    ELSE <<SubSeq(v, p, SubtreeEnd(v, p) - 1)>> \o ItemsFrom(v, SubtreeEnd(v, p), n - 1)

\* the items of an array, or the key subtrees of an object
Items(v) == ItemsFrom(v, 2, v[1].n)

\* the members of an object as <<key, value>> records
Members(v) == [k \in 1..Len(Items(v)) |->
                 [k |-> Items(v)[k][1].s, v |-> Tail(Items(v)[k])]]

IsObject(v) == v # <<>> /\ v[1].t = "obj"
IsArray(v) == v # <<>> /\ v[1].t = "arr"
HasField(v, key) == \E k \in 1..Len(Members(v)) : Members(v)[k].k = key
Field(v, key) ==
    Members(v)[CHOOSE k \in 1..Len(Members(v)) : Members(v)[k].k = key].v

ParseFail == [ok |-> FALSE, v |-> <<>>, p |-> 0]
ParseOk(v, p) == [ok |-> TRUE, v |-> v, p |-> p]

RECURSIVE SkipWS(_, _)
SkipWS(s, p) == IF p <= Len(s) /\ s[p] \in WS THEN SkipWS(s, p + 1) ELSE p

RECURSIVE ParseChars(_, _, _)
\* the characters of a string literal from p up to its closing quote
ParseChars(s, p, acc) ==
    IF p > Len(s) THEN ParseFail
    ELSE IF s[p] = Quote THEN ParseOk(acc, p + 1)
    ELSE IF s[p] = Backslash
         THEN IF p + 1 <= Len(s) /\ s[p + 1] \in {Quote, Backslash}
              THEN ParseChars(s, p + 2, Append(acc, s[p + 1]))
              ELSE ParseFail
    ELSE ParseChars(s, p + 1, Append(acc, s[p]))

RECURSIVE DigitsEnd(_, _)
DigitsEnd(s, p) == IF p <= Len(s) /\ s[p] \in Digits THEN DigitsEnd(s, p + 1) ELSE p

\* an integer: an optional minus, then 0 or a digit string not starting with 0
ParseNumber(s, p) ==
    LET q == IF s[p] = "-" THEN p + 1 ELSE p
        e == IF q <= Len(s) /\ s[q] = "0" THEN q + 1 ELSE DigitsEnd(s, q)
    IN IF e = q THEN ParseFail
       ELSE ParseOk(<<Node("num", SubSeq(s, p, e - 1), 0)>>, e)

RECURSIVE ParseValue(_, _), ParseElements(_, _, _), ParseMembers(_, _, _)
ParseValue(s, p0) ==
    LET p == SkipWS(s, p0) IN
    IF p > Len(s) THEN ParseFail
    ELSE CASE s[p] = "[" ->
                LET q == SkipWS(s, p + 1) IN
                IF q <= Len(s) /\ s[q] = "]" THEN ParseOk(Arr(<<>>), q + 1)
                ELSE ParseElements(s, p + 1, <<>>)
           [] s[p] = "{" ->
                LET q == SkipWS(s, p + 1) IN
                IF q <= Len(s) /\ s[q] = "}" THEN ParseOk(Obj(<<>>), q + 1)
                ELSE ParseMembers(s, p + 1, <<>>)
           [] s[p] = Quote ->
                LET r == ParseChars(s, p + 1, <<>>) IN
                IF r.ok THEN ParseOk(Str(r.v), r.p) ELSE ParseFail
           [] s[p] \in Digits \cup {"-"} -> ParseNumber(s, p)
           [] s[p] \in Literals -> ParseOk(<<Node("lit", <<s[p]>>, 0)>>, p + 1)
           [] OTHER -> ParseFail

\* the elements of an array after "[" or ","; acc holds the elements read
ParseElements(s, p, acc) ==
    LET r == ParseValue(s, p) IN
    IF ~r.ok THEN ParseFail
    ELSE LET q == SkipWS(s, r.p) IN
         IF q > Len(s) THEN ParseFail
         ELSE IF s[q] = "," THEN ParseElements(s, q + 1, Append(acc, r.v))
         ELSE IF s[q] = "]" THEN ParseOk(Arr(Append(acc, r.v)), q + 1)
         ELSE ParseFail

\* the members of an object after "{" or ","; acc holds the members read
ParseMembers(s, p, acc) ==
    LET q == SkipWS(s, p) IN
    IF q > Len(s) \/ s[q] # Quote THEN ParseFail
    ELSE LET key == ParseChars(s, q + 1, <<>>) IN
         IF ~key.ok THEN ParseFail
         ELSE LET c == SkipWS(s, key.p) IN
              IF c > Len(s) \/ s[c] # ":" THEN ParseFail
              ELSE LET r == ParseValue(s, c + 1) IN
                   IF ~r.ok THEN ParseFail
                   ELSE LET e == SkipWS(s, r.p)
                            acc2 == SetMember(acc, key.v, r.v)
                        IN IF e > Len(s) THEN ParseFail
                           ELSE IF s[e] = "," THEN ParseMembers(s, e + 1, acc2)
                           ELSE IF s[e] = "}" THEN ParseOk(Obj(acc2), e + 1)
                           ELSE ParseFail

\* JSON.parse: one value, with nothing but white space around it
JSONparse(s) ==
    LET r == ParseValue(s, 1) IN
    IF r.ok /\ SkipWS(s, r.p) > Len(s) THEN [ok |-> TRUE, v |-> r.v]
    ELSE [ok |-> FALSE, v |-> <<>>]

RECURSIVE Escape(_)
Escape(s) ==
    IF s = <<>> THEN <<>>
    ELSE (IF Head(s) \in {Quote, Backslash} THEN <<Backslash, Head(s)>> ELSE <<Head(s)>>)
            \o Escape(Tail(s))

Quoted(s) == <<Quote>> \o Escape(s) \o <<Quote>>

RECURSIVE JoinTexts(_)
JoinTexts(ts) ==
    IF ts = <<>> THEN <<>>
    ELSE IF Len(ts) = 1 THEN ts[1]
    ELSE ts[1] \o <<",">> \o JoinTexts(Tail(ts))

RECURSIVE JSONstringify(_)
\* JSON.stringify without indentation
JSONstringify(v) ==
    CASE v[1].t = "str" -> Quoted(v[1].s)
      [] v[1].t = "num" -> IF v[1].s = <<"-", "0">> THEN <<"0">> ELSE v[1].s
      [] v[1].t = "lit" -> v[1].s
      [] v[1].t = "arr" ->
           <<"[">> \o JoinTexts([k \in 1..Len(Items(v)) |-> JSONstringify(Items(v)[k])])
                   \o <<"]">>
      [] OTHER ->
           <<"{">> \o JoinTexts([k \in 1..Len(Members(v)) |->
                                   Quoted(Members(v)[k].k) \o <<":">>
                                       \o JSONstringify(Members(v)[k].v)])
                   \o <<"}">>

-----------------------------------------------------------------------------
(* Response Interpreter *)

EvolutionRawChars == 500
PatternRawChars == 200
ArchitectureRawChars == 200

\* String.match of /\{[\s\S]*\}/ or /\[[\s\S]*\]/: from the first opening
\* delimiter to the last closing delimiter after it
HasMatch(s, open, close) ==
    \E i, j \in 1..Len(s) : i < j /\ s[i] = open /\ s[j] = close

\* the match of a lazy quantifier: up to the first closing delimiter
LazyMatch(s, open, close) ==
    LET i == CHOOSE a \in 1..Len(s) : s[a] = open /\ \A b \in 1..(a - 1) : s[b] # open
        j == CHOOSE a \in (i + 1)..Len(s) :
                s[a] = close /\ \A b \in (i + 1)..(a - 1) : s[b] # close
    IN SubSeq(s, i, j)

GreedyMatch(s, open, close) ==
    LET i == CHOOSE a \in 1..Len(s) : s[a] = open /\ \A b \in 1..(a - 1) : s[b] # open
        j == CHOOSE a \in 1..Len(s) : s[a] = close /\ \A b \in (a + 1)..Len(s) : s[b] # close
    IN SubSeq(s, i, j)

\* jsonMatch ? jsonMatch[0] : response
JsonString(response, open, close) ==
    IF HasMatch(response, open, close) THEN GreedyMatch(response, open, close)
    ELSE response

Returned(v) == [threw |-> FALSE, value |-> v]
Thrown == [threw |-> TRUE, value |-> <<>>]

\* lines 964-970
EvolutionFallback(response) ==
    Obj(<< [k |-> <<"answer">>,
            v |-> Str(IF Len(response) > EvolutionRawChars
                      THEN SubSeq(response, 1, EvolutionRawChars) \o <<"...">>
                      ELSE response)],
           [k |-> <<"relevantCommits">>, v |-> Arr(<<>>)],
           [k |-> <<"keyInsights">>,
            v |-> Arr(<<Str(<<"Unable to parse structured response">>)>>)],
           [k |-> <<"patterns">>, v |-> Arr(<<Str(<<"Raw response provided above">>)>>)],
           [k |-> <<"businessContext">>,
            v |-> Str(<<"Please try asking a more specific question">>)] >>)

\* lines 983-990
PatternFallback(response) ==
    Arr(<< Obj(<< [k |-> <<"pattern">>, v |-> Str(<<"Analysis Error">>)],
                  [k |-> <<"description">>,
                   v |-> Str(<<"Unable to parse pattern analysis response">>)],
                  [k |-> <<"introducedAt">>, v |-> Str(<<"Unknown">>)],
                  [k |-> <<"evolution">>,
                   v |-> Arr(<<Str(<<"Raw response: ">>
                                     \o Take(response, PatternRawChars) \o <<"...">>)>>)],
                  [k |-> <<"impact">>, v |-> Str(<<"low">>)],
                  [k |-> <<"reasoning">>,
                   v |-> Str(<<"Please try the analysis again or check if there's actual commit history">>)] >>) >>)

\* lines 1003-1009
ArchitecturalFallback(response) ==
    Arr(<< Obj(<< [k |-> <<"decision">>, v |-> Str(<<"Analysis Error">>)],
                  [k |-> <<"rationale">>,
                   v |-> Str(<<"Unable to parse architectural analysis response">>)],
                  [k |-> <<"commit">>, v |-> Str(<<"Unknown">>)],
                  [k |-> <<"impact">>,
                   v |-> Str(<<"Raw response: ">>
                               \o Take(response, ArchitectureRawChars) \o <<"...">>)],
                  [k |-> <<"alternatives">>,
                   v |-> Arr(<<Str(<<"Please try the analysis again">>),
                               Str(<<"Check if there's actual commit history to analyze">>)>>)] >>) >>)

\* the parse error escapes the interpreter
parseEvolutionResponseNoCatch(response) ==
    LET r == JSONparse(JsonString(response, "{", "}"))
    IN IF r.ok THEN Returned(r.v) ELSE Thrown

\* lines 955-972
parseEvolutionResponse(response) ==
    LET r == JSONparse(JsonString(response, "{", "}"))
    IN IF r.ok THEN Returned(r.v) ELSE Returned(EvolutionFallback(response))

\* the parse error is not caught
parsePatternResponseNoCatch(response) ==
    LET r == JSONparse(JsonString(response, "[", "]"))
    IN IF r.ok THEN Returned(r.v) ELSE Thrown

\* lines 974-992
parsePatternResponse(response) ==
    LET r == JSONparse(JsonString(response, "[", "]"))
    IN IF r.ok THEN Returned(r.v) ELSE Returned(PatternFallback(response))

\* lines 994-1011
parseArchitecturalResponse(response) ==
    LET r == JSONparse(JsonString(response, "[", "]"))
    IN IF r.ok THEN Returned(r.v) ELSE Returned(ArchitecturalFallback(response))

-----------------------------------------------------------------------------
(* Analysis entry points *)

Modes == {"evolution", "pattern", "architecture"}

\* the messages of the errors thrown at lines 533, 581 and 637
FailureMessage(op) ==
    CASE op = "evolution" -> "Failed to analyze code evolution"
      [] op = "pattern" -> "Failed to analyze code patterns"
      [] OTHER -> "Failed to analyze architectural decisions"

\* the check of the repository is left out
RepositoryMissingIgnored(repoId) == FALSE

\* if (!repository)
RepositoryMissing(repoId) == getRepository(repoId) = {}

NoRow == [repo_id |-> 0, commit_id |-> NULL, file_path |-> NULL,
          analysis_type |-> "none", result |-> <<>>]

\* what an entry point did: how it ended, the error it threw, the value it
\* returned, its calls of the boundary, the row it handed to saveAnalysis
Outcome(outcome, error, value, calls, row) ==
    [outcome |-> outcome, error |-> error, value |-> value, calls |-> calls, row |-> row]

\* the boundary is called again after its failure
OnBoundaryFailureRetry(op) == Outcome("error", FailureMessage(op), <<>>, 2, NoRow)

\* the catch of lines 531-534: one call was made, the error is replaced by
\* the mode's failure and thrown on
OnBoundaryFailure(op) == Outcome("error", FailureMessage(op), <<>>, 1, NoRow)

RECURSIVE Assign(_, _)
\* the members of src assigned one after the other onto members
Assign(members, src) ==
    IF src = <<>> THEN members
    ELSE Assign(SetMember(members, Head(src).k, Head(src).v), Tail(src))

\* the own enumerable properties copied by the spread of a value: members of
\* an object, the indexed items of an array, the indexed characters of a
\* string, nothing of a number or a literal
Spread(v) ==
    CASE v[1].t = "obj" -> Members(v)
      [] v[1].t = "arr" ->
           [k \in 1..Len(Items(v)) |-> [k |-> <<ToString(k - 1)>>, v |-> Items(v)[k]]]
      [] v[1].t = "str" ->
           [k \in 1..Len(v[1].s) |-> [k |-> <<ToString(k - 1)>>, v |-> Str(<<v[1].s[k]>>)]]
      [] OTHER -> <<>>

\* { query: query.question, ...analysis }; index keys are listed first
EvolutionRecord(question, v) ==
    IF v[1].t \in {"arr", "str"}
    THEN Obj(Spread(v) \o <<[k |-> <<"query">>, v |-> Str(question)]>>)
    ELSE Obj(Assign(<<[k |-> <<"query">>, v |-> Str(question)]>>, Spread(v)))

Interpret(op, text) ==
    CASE op = "evolution" -> parseEvolutionResponse(text)
      [] op = "pattern" -> parsePatternResponse(text)
      [] OTHER -> parseArchitecturalResponse(text)

\* x || null
OrNull(x) == IF x \in {NULL, ""} THEN NULL ELSE x

Question == <<"How did the API evolve?">>

\* texts the boundary may answer with
EvolutionAnswer ==
    Obj(<< [k |-> <<"answer">>, v |-> Str(<<"It grew.">>)],
           [k |-> <<"relevantCommits">>, v |-> Arr(<<Str(<<"h2">>)>>)],
           [k |-> <<"keyInsights">>, v |-> Arr(<<>>)],
           [k |-> <<"patterns">>, v |-> Arr(<<>>)] >>)

BoundaryTexts ==
    { JSONstringify(EvolutionAnswer),
      <<"I cannot answer that.">>,
      <<"See ", "[", "]", " and ", "{", "}">> }

Replies == {[kind |-> "text", text |-> t] : t \in BoundaryTexts}
              \cup {[kind |-> "tool_use", text |-> <<>>], [kind |-> "error", text |-> <<>>]}

\* the value handed to JSON.stringify for the result column
ResultOf(op, value) == IF op = "evolution" THEN EvolutionRecord(Question, value) ELSE value

\* the interpretation of each answer in each mode
Interpreted == [op \in Modes |-> [t \in BoundaryTexts |-> Interpret(op, t)]]

\* JSON.stringify of what a mode saves of an interpretation
SerializedOf(op, a) == IF a.threw THEN <<>> ELSE JSONstringify(ResultOf(op, a.value))

\* the result column of each answer in each mode
Serialized ==
    [op \in Modes |-> [t \in BoundaryTexts |-> SerializedOf(op, Interpret(op, t))]]

\* lines 517-529: the interpretation a is returned after db.saveAnalysis has
\* been handed its row; an error inside the try ends in the catch
Complete(op, repoId, filePath, a, result) ==
    IF a.threw THEN OnBoundaryFailure(op)
    ELSE Outcome("ok", "", a.value, 1,
                 [repo_id |-> repoId, commit_id |-> NULL,
                  file_path |-> IF op = "architecture" THEN NULL ELSE OrNull(filePath),
                  analysis_type |-> op,
                  result |-> result])

\* the body shared by analyzeEvolution, analyzePatterns and
\* analyzeArchitecturalDecisions: repository lookup, one call of
\* anthropic.messages.create, parsing, the row for db.saveAnalysis
Invoke(op, repoId, filePath, reply) ==
    IF RepositoryMissing(repoId)
    THEN Outcome("error", "Repository not found", <<>>, 0, NoRow)
    ELSE IF reply.kind # "text" THEN OnBoundaryFailure(op)
    ELSE Complete(op, repoId, filePath,
                  Interpreted[op][reply.text], Serialized[op][reply.text])

\* the messages of the 500 responses of the three routes
RouteFailure(op) ==
    CASE op = "evolution" -> "Failed to analyze codebase evolution"
      [] op = "pattern" -> "Failed to analyze code patterns"
      [] OTHER -> "Failed to analyze architectural decisions"

\* POST of the route around the entry point: the value with success, or any
\* error of the entry point turned into the route's 500 response
Respond(op, res) ==
    IF res.outcome = "ok" THEN [status |-> 200, error |-> ""]
    ELSE [status |-> 500, error |-> RouteFailure(op)]

NoCall == [seq |-> 0, op |-> "none", repoId |-> 0, reply |-> [kind |-> "none", text |-> <<>>],
           before |-> 0, saved |-> 0, response |-> [status |-> 0, error |-> ""]]
              @@ Outcome("none", "", <<>>, 0, NoRow)

\* one record is kept per repository, analysis type and file: an earlier
\* record of the same analysis is replaced
saveAnalysisReplacing(rows, id, row) ==
    {x \in rows : ~(x.repo_id = row.repo_id /\ x.analysis_type = row.analysis_type
                      /\ x.file_path = row.file_path)}
        \cup {[id |-> id] @@ row}

\* Database.saveAnalysis: plain INSERT under a new id
saveAnalysisRows(rows, id, row) == rows \cup {[id |-> id] @@ row}

\* Database.saveAnalysis on the row of a successful call, and the record of
\* what the caller saw
Settled(op, repoId, reply, res) ==
    /\ analyses' = IF res.outcome = "ok"
                   THEN saveAnalysisRows(analyses, nextId, res.row) ELSE analyses
    /\ nextId' = IF res.outcome = "ok" THEN nextId + 1 ELSE nextId
    /\ last' = [seq |-> last.seq + 1, op |-> op, repoId |-> repoId, reply |-> reply,
                before |-> Cardinality(analyses),
                saved |-> IF res.outcome = "ok" THEN nextId ELSE 0,
                response |-> Respond(op, res)] @@ res

Analyze(op, repoId, filePath, reply) ==
    /\ last.seq < MaxAnalyses
    /\ Settled(op, repoId, reply, Invoke(op, repoId, filePath, reply))
    /\ UNCHANGED <<repositories, commits, fileChanges, gitVars, tasks, started,
                   finished, parseVars, callVars>>

analyzeEvolution(repoId, filePath, reply) == Analyze("evolution", repoId, filePath, reply)

analyzePatterns(repoId, filePath, reply) == Analyze("pattern", repoId, filePath, reply)

analyzeArchitecturalDecisions(repoId, reply) == Analyze("architecture", repoId, NULL, reply)

\* a repoId that is stored, or one that is not
RepoIdInputs == RepoIds \cup {0}

FilePaths == {NULL, "f1"}

-----------------------------------------------------------------------------
(* Commit selection for an evolution query.  A date is the instant it     *)
(* names, as a number: new Date(text) of a well-formed text.               *)

CommitFetchLimit == 500
QueryCap == 100
EvolutionContextCap == 20
PatternFetchLimit == 200
PatternContextCap == 30
ArchitectureFetchLimit == 300
ArchitectureContextCap == 20
MajorFilesChanged == 5
HashPrefix == 8

RECURSIVE ByRowId(_)
\* rows in the order of their insertion
ByRowId(rows) ==
    IF rows = {} THEN <<>>
    ELSE LET x == CHOOSE r \in rows : \A o \in rows : r.id <= o.id
         IN <<x>> \o ByRowId(rows \ {x})

RECURSIVE ByDateDesc(_, _, _)
\* ORDER BY date DESC over rows whose dates lie in lo..hi: the later half of
\* the dates first, rows of one date in the order of their insertion
ByDateDesc(rows, hi, lo) ==
    IF rows = {} THEN <<>>
    ELSE IF hi <= lo THEN ByRowId(rows)
    ELSE LET mid == (hi + lo) \div 2
         IN ByDateDesc({x \in rows : x.date > mid}, hi, mid + 1)
               \o ByDateDesc({x \in rows : x.date <= mid}, mid, lo)

\* Database.getCommits(repoId, limit): ORDER BY date DESC LIMIT limit
getCommits(repoId, limit) ==
    LET rows == {x \in commits : x.repo_id = repoId}
        dates == {x.date : x \in rows}
    IN IF rows = {} THEN <<>>
       ELSE Take(ByDateDesc(rows,
                            CHOOSE d \in dates : \A e \in dates : e <= d,
                            CHOOSE d \in dates : \A e \in dates : d <= e),
                 limit)

\* the time range is not looked at
filterCommitsByQueryAnyDate(cs, query) == Take(cs, QueryCap)

\* LLMAnalyzer.filterCommitsByQuery; the file path filters nothing
filterCommitsByQuery(cs, query) ==
    LET Within(c) == c.date >= query.timeRange.from /\ c.date <= query.timeRange.to
        filtered == IF query.timeRange.given THEN SelectSeq(cs, Within) ELSE cs
    IN Take(filtered, QueryCap)

\* the characters of the commit name a stored hash stands for
NameOf(hash) == HashChars(CHOOSE c \in 1..nCommits : HashOf(c) = hash)

\* the end of the substring is not looked at
substringToEnd(s, start, end) == SubSeq(s, start + 1, Len(s))

\* String.prototype.substring(start, end)
substring(s, start, end) == SubSeq(s, start + 1, Min(end, Len(s)))

\* lines 689-697 and 772-780: the summary of a commit with its author
AuthoredSummary(commit) ==
    [hash |-> substring(NameOf(commit.hash), 0, HashPrefix), date |-> commit.date,
     author |-> commit.author, message |-> commit.message,
     filesChanged |-> commit.files_changed, insertions |-> commit.insertions,
     deletions |-> commit.deletions]

\* lines 737-744: the summary of a commit in a pattern context
PatternSummary(commit) ==
    [hash |-> substring(NameOf(commit.hash), 0, HashPrefix), date |-> commit.date,
     message |-> commit.message, filesChanged |-> commit.files_changed,
     insertions |-> commit.insertions, deletions |-> commit.deletions]

\* commits.slice(0, 20).map(...) of prepareEnhancedEvolutionContext
prepareEnhancedEvolutionContext(cs) ==
    [k \in 1..Len(Take(cs, EvolutionContextCap)) |-> AuthoredSummary(cs[k])]

\* commits.slice(0, 30).map(...) of prepareEnhancedPatternContext
prepareEnhancedPatternContext(cs) ==
    [k \in 1..Len(Take(cs, PatternContextCap)) |-> PatternSummary(cs[k])]

\* commits.slice(0, 20).map(...) of prepareEnhancedArchitecturalContext
prepareEnhancedArchitecturalContext(cs) ==
    [k \in 1..Len(Take(cs, ArchitectureContextCap)) |-> AuthoredSummary(cs[k])]

MajorWords == {"refactor", "architecture", "redesign", "breaking"}

\* message.toLowerCase().includes(word), on symbols
includes(message, word) == \E k \in 1..Len(message) : toLowerCase(message[k]) = word

\* lines 595-601: the filter of the major commits
IsMajor(commit) ==
    \/ commit.files_changed > MajorFilesChanged
    \/ \E w \in MajorWords : includes(commit.message, w)

\* lines 490-491 and 689: the commits fetched for an evolution query, those
\* handed to context assembly, and those placed in the context
QueryCommits ==
    /\ args.fn = "analyzeEvolution"
    /\ ret.fn = "none"
    /\ LET fetched == getCommits(args.repoId, CommitFetchLimit)
           filtered == filterCommitsByQuery(fetched, args)
       IN ret' = [fn |-> "analyzeEvolution", fetched |-> fetched, filtered |-> filtered,
                  context |-> Take(filtered, EvolutionContextCap),
                  summaries |-> prepareEnhancedEvolutionContext(filtered)]
    /\ UNCHANGED <<storeVars, gitVars, tasks, started, finished, last, parseVars, args>>

\* lines 546-548: the commits fetched for a pattern analysis and their
\* summaries in the context
PatternCommits ==
    /\ args.fn = "analyzePatterns"
    /\ ret.fn = "none"
    /\ LET fetched == getCommits(args.repoId, PatternFetchLimit)
       IN ret' = [fn |-> "analyzePatterns", fetched |-> fetched, filtered |-> fetched,
                  summaries |-> prepareEnhancedPatternContext(fetched)]
    /\ UNCHANGED <<storeVars, gitVars, tasks, started, finished, last, parseVars, args>>

\* lines 594-605: the commits fetched for an architecture analysis, the
\* major ones among them, and their summaries in the context
ArchitecturalCommits ==
    /\ args.fn = "analyzeArchitecturalDecisions"
    /\ ret.fn = "none"
    /\ LET fetched == getCommits(args.repoId, ArchitectureFetchLimit)
           majorCommits == SelectSeq(fetched, IsMajor)
       IN ret' = [fn |-> "analyzeArchitecturalDecisions", fetched |-> fetched,
                  filtered |-> majorCommits,
                  summaries |-> prepareEnhancedArchitecturalContext(majorCommits)]
    /\ UNCHANGED <<storeVars, gitVars, tasks, started, finished, last, parseVars, args>>

-----------------------------------------------------------------------------
(* Snapshot Collector.  A path is a sequence of symbols: directory names   *)
(* with their slash, the parts of the file name, and the extension with    *)
(* its dot.  A content is its length, its number of control characters     *)
(* and its number of lines; an unreadable file has no content.             *)

SnapshotCap == 50
SizeCeiling == 100000

SourceExtensions ==
    {".js", ".jsx", ".ts", ".tsx", ".py", ".java", ".go", ".rs", ".c", ".cpp", ".h",
     ".hpp", ".cs", ".php", ".rb"}
ConfigFiles == {"readme", "package.json", "tsconfig.json", "cargo.toml", "pom.xml",
                "build.gradle"}
ExcludePatterns == {"node_modules/", "dist/", "build/", ".git/", "coverage/", "target/",
                    "vendor/"}
KeyPatterns == {"readme", "index", "main", "app", "server", "client", "package.json",
                "tsconfig", "dockerfile", "makefile", "config", "setup", "init",
                "bootstrap"}

\* the symbols that are directory names
IsDir(sym) == sym \in ExcludePatterns \cup {"src/", "docs/"}

\* path.basename(file).toLowerCase()
basename(file) ==
    LET dirs == {k \in 1..Len(file) : IsDir(file[k])}
        from == IF dirs = {} THEN 1 ELSE 1 + CHOOSE k \in dirs : \A m \in dirs : m <= k
    IN [k \in 1..(Len(file) - from + 1) |-> toLowerCase(file[from + k - 1])]

\* lines 346-396
languageMap ==
    ".js" :> "JavaScript" @@ ".jsx" :> "JavaScript" @@ ".ts" :> "TypeScript" @@
    ".tsx" :> "TypeScript" @@ ".py" :> "Python" @@ ".java" :> "Java" @@
    ".go" :> "Go" @@ ".rs" :> "Rust" @@ ".c" :> "C" @@
    ".cpp" :> "C++" @@ ".cc" :> "C++" @@ ".cxx" :> "C++" @@
    ".h" :> "C/C++" @@ ".hpp" :> "C++" @@ ".cs" :> "C#" @@
    ".php" :> "PHP" @@ ".rb" :> "Ruby" @@ ".swift" :> "Swift" @@
    ".kt" :> "Kotlin" @@ ".scala" :> "Scala" @@ ".clj" :> "Clojure" @@
    ".hs" :> "Haskell" @@ ".ml" :> "OCaml" @@ ".fs" :> "F#" @@
    ".dart" :> "Dart" @@ ".lua" :> "Lua" @@ ".r" :> "R" @@
    ".m" :> "Objective-C" @@ ".mm" :> "Objective-C++" @@ ".sh" :> "Shell" @@
    ".bash" :> "Shell" @@ ".zsh" :> "Shell" @@ ".fish" :> "Shell" @@
    ".ps1" :> "PowerShell" @@ ".sql" :> "SQL" @@ ".html" :> "HTML" @@
    ".css" :> "CSS" @@ ".scss" :> "SCSS" @@ ".sass" :> "Sass" @@
    ".less" :> "Less" @@ ".vue" :> "Vue" @@ ".svelte" :> "Svelte" @@
    ".json" :> "JSON" @@ ".xml" :> "XML" @@ ".yaml" :> "YAML" @@
    ".yml" :> "YAML" @@ ".toml" :> "TOML" @@ ".md" :> "Markdown" @@
    ".mdx" :> "MDX"

\* the symbols that are extensions
IsExtension(sym) == sym \in DOMAIN languageMap \cup {".png", ".lock"}

\* path.extname(file).toLowerCase(): the part from the last dot of the base
\* name, nothing when the name has no dot or only a leading one
extname(file) ==
    LET base == basename(file)
    IN IF Len(base) >= 2 /\ IsExtension(base[Len(base)]) THEN base[Len(base)] ELSE ""

\* lines 167-176
isKeyFile(filePath) == \E k \in 1..Len(basename(filePath)) : basename(filePath)[k] \in KeyPatterns

\* lines 178-182: fewer control characters than a tenth of the length
isTextFile(content) == content.control = 0 \/ 10 * content.control < content.length

\* lines 133-152: the filter of importantFiles
IsImportant(file) ==
    /\ ~\E k \in 1..Len(file) : file[k] \in ExcludePatterns
    /\ \/ extname(file) \in SourceExtensions
       \/ \E k \in 1..Len(basename(file)) : basename(file)[k] \in ConfigFiles
       \/ basename(file) = <<"dockerfile">>
       \/ file[Len(file)] = ".md"

\* the key files are not put first
getImportantFilesUnordered(listing) ==
    Take(SelectSeq(listing.files, IsImportant), SnapshotCap)

\* lines 124-165: the tracked files that are kept, key files first, cut at
\* the cap; nothing when git ls-files fails
getImportantFiles(listing) ==
    LET importantFiles == SelectSeq(listing.files, IsImportant)
        IsOther(f) == ~isKeyFile(f)
    IN IF ~listing.ok THEN <<>>
       ELSE Take(SelectSeq(importantFiles, isKeyFile) \o SelectSeq(importantFiles, IsOther),
                 SnapshotCap)

\* lines 97-115: a file is kept when it can be read, is text and is shorter
\* than the ceiling
Kept(content) == content.readable /\ isTextFile(content) /\ content.length < SizeCeiling

RECURSIVE SumLines(_, _)
SumLines(files, contentOf) ==
    IF files = <<>> THEN 0
    ELSE contentOf[Head(files)].lines + SumLines(Tail(files), contentOf)

\* lines 89-122
analyzeCodebase(listing, contentOf) ==
    LET files == getImportantFiles(listing)
        IsKept(f) == Kept(contentOf[f])
        kept == SelectSeq(files, IsKept)
    IN [totalLines |-> SumLines(kept, contentOf),
        fileContents |-> [k \in 1..Len(kept) |-> [path |-> kept[k], content |-> contentOf[kept[k]]]],
        keyFiles |-> SelectSeq(kept, isKeyFile)]

CollectSnapshot ==
    /\ args.fn = "analyzeCodebase"
    /\ ret.fn = "none"
    /\ ret' = [fn |-> "analyzeCodebase", selected |-> getImportantFiles(args.listing)]
                 @@ analyzeCodebase(args.listing, args.contentOf)
    /\ UNCHANGED <<storeVars, gitVars, tasks, started, finished, last, parseVars, args>>

-----------------------------------------------------------------------------
(* Language detection *)

\* lines 345-399: languageMap[ext] || null
getLanguageFromExtension(ext) ==
    IF ext \in DOMAIN languageMap THEN languageMap[ext] ELSE NULL

\* lines 320-343: the files of the tree, without those below a directory
\* whose name starts with a dot or is node_modules
getFileList(tree) ==
    LET Walked(f) == ~\E k \in 1..Len(f) : f[k] \in {".git/", "node_modules/"}
    IN SelectSeq(tree, Walked)

\* every language is added once more
SetAddAgain(members, x) == Append(members, x)

\* Set.prototype.add: the members in the order of their first insertion
SetAdd(members, x) == IF x \in Range(members) THEN members ELSE Append(members, x)

RECURSIVE AddLanguages(_, _)
\* lines 306-312
AddLanguages(languages, files) ==
    IF files = <<>> THEN languages
    ELSE LET language == getLanguageFromExtension(extname(Head(files)))
         IN AddLanguages(IF language # NULL THEN SetAdd(languages, language) ELSE languages,
                         Tail(files))

\* lines 299-318: Array.from(languages)
detectLanguages(tree) == AddLanguages(<<>>, getFileList(tree))

DetectLanguages ==
    /\ args.fn = "detectLanguages"
    /\ ret.fn = "none"
    /\ ret' = [fn |-> "detectLanguages", languages |-> detectLanguages(args.tree)]
    /\ UNCHANGED <<storeVars, gitVars, tasks, started, finished, last, parseVars, args>>

-----------------------------------------------------------------------------
(* Specification of ingestion and history extraction *)

NotParsed == [mode |-> "none", threw |-> FALSE, value |-> <<>>]

\* no function has been called alone
NoArgs == [fn |-> "none"]
NoRet == [fn |-> "none"]

Init ==
    /\ repositories = {}
    /\ commits = {}
    /\ fileChanges = {}
    /\ analyses = {}
    /\ nextId = 1
    /\ nCommits \in 1..MaxCommits
    /\ unreadable \in SUBSET (1..nCommits)
    /\ unlistable \in SUBSET (1..nCommits)
    /\ unreadable \cap unlistable = {}
    /\ Cardinality(unreadable \cup unlistable) <= MaxUnreadable
    /\ tasks = [t \in Workers |-> IdleTask]
    /\ started = 0
    /\ finished = <<>>
    /\ last = NoCall
    /\ rawText = <<>>
    /\ parsed = NotParsed
    /\ args = NoArgs
    /\ ret = NoRet

Next ==
    \/ \E path \in {"repo", "plain"} : Upload(path)
    \/ \E r \in repositories, limit \in Limits : ReRun(r, limit)
    \/ \E t \in Workers : LogStep(t)
    \/ \E t \in Workers : DiffSummaryStep(t)
    \/ \E t \in Workers : CreateCommitStep(t)
    \/ \E t \in Workers : FileChangeStep(t)

Spec == Init /\ [][Next]_vars

-----------------------------------------------------------------------------
(* Ingestion and history extraction with walks that go on: a git command   *)
(* or a store call that a walk awaits returns or fails, and the            *)
(* continuation of the await is run.                                       *)

WalkStep(t) ==
    LogStep(t) \/ DiffSummaryStep(t) \/ CreateCommitStep(t) \/ FileChangeStep(t)

SpecFair == Init /\ [][Next]_vars /\ \A t \in Workers : WF_vars(WalkStep(t))

-----------------------------------------------------------------------------
(* Two walks of one repository in flight together: the upload has stored   *)
(* the Repository row and started its walk, and analyzeCommitHistory has   *)
(* been called again for that repository before the first walk has read    *)
(* its log.  Every await of a walk is a point where the other may run.     *)

TwoRuns == {1, 2}

InitInterleaved ==
    /\ nCommits \in 1..MaxInterleaved
    /\ unreadable \in SUBSET (1..nCommits)
    /\ unlistable \in SUBSET (1..nCommits)
    /\ unreadable \cap unlistable = {}
    /\ Cardinality(unreadable \cup unlistable) <= MaxUnreadable
    /\ repositories = {RepositoryRow(1, "repo", HistoryOf("repo"))}
    /\ commits = {}
    /\ fileChanges = {}
    /\ analyses = {}
    /\ nextId = 2
    /\ \E limit \in Limits :
          tasks = [t \in TwoRuns |->
                     [IdleTask EXCEPT !.pc = "log", !.repo = 1, !.path = "repo",
                                      !.limit = IF t = 1 THEN DefaultLimit ELSE limit,
                                      !.solo = FALSE]]
    /\ started = 2
    /\ finished = <<>>
    /\ last = NoCall
    /\ rawText = <<>>
    /\ parsed = NotParsed
    /\ args = [fn |-> "upload", path |-> "repo"]
    /\ ret = UploadResponse(RepositoryRow(1, "repo", HistoryOf("repo")), HistoryOf("repo"))

NextInterleaved ==
    \/ \E t \in TwoRuns : LogStep(t)
    \/ \E t \in TwoRuns : DiffSummaryStep(t)
    \/ \E t \in TwoRuns : CreateCommitStep(t)
    \/ \E t \in TwoRuns : FileChangeStep(t)

SpecInterleaved == InitInterleaved /\ [][NextInterleaved]_vars

-----------------------------------------------------------------------------
(* Specification of the Response Interpreter: a response text is drawn and *)
(* the three parsers are applied to it                                     *)

Alphabet == {"[", "]", "{", "}", ",", ":", Quote, "1", "a"}

ShortTexts == UNION {[1..n -> Alphabet] : n \in 0..MaxTextLen}

Pad(n) == [k \in 1..n |-> "a"]

LongTexts == {Pad(EvolutionRawChars + 1), Pad(PatternRawChars + 1),
              <<"[">> \o Pad(PatternRawChars + 1), <<"{">> \o Pad(EvolutionRawChars + 1)}

\* architecture-decision objects
Decision(d, r, c, i, a) ==
    Obj(<< [k |-> <<"decision">>, v |-> Str(d)], [k |-> <<"rationale">>, v |-> Str(r)],
           [k |-> <<"commit">>, v |-> Str(c)], [k |-> <<"impact">>, v |-> Str(i)],
           [k |-> <<"alternatives">>, v |-> Arr([k \in 1..Len(a) |-> Str(a[k])])] >>)

Decisions ==
    { Decision(<<"Adopt layered architecture">>, <<"separation of concerns">>,
               <<"abcd1234">>, <<"improved testability">>, << <<"monolith">> >>),
      Decision(<<"Use ", "]", "REST", "[", " ", Quote, "API", Quote>>, <<>>,
               <<"h2">>, <<"{", "}">>, <<>>) }

DecisionArrays == UNION {[1..n -> Decisions] : n \in 0..MaxDecisions}

\* the texts that are the JSON array of the decisions ds
DecisionTexts(ds) ==
    {JSONstringify(Arr(ds)), <<" ">> \o JSONstringify(Arr(ds)) \o <<" ", " ">>}

AllDecisionTexts == UNION {DecisionTexts(ds) : ds \in DecisionArrays}

Texts == ShortTexts \cup LongTexts \cup {<<"null">>} \cup AllDecisionTexts

InitParse ==
    /\ repositories = {}
    /\ commits = {}
    /\ fileChanges = {}
    /\ analyses = {}
    /\ nextId = 1
    /\ nCommits = 1
    /\ unreadable = {}
    /\ unlistable = {}
    /\ tasks = [t \in Workers |-> IdleTask]
    /\ started = 0
    /\ finished = <<>>
    /\ last = NoCall
    /\ rawText \in Texts
    /\ parsed = NotParsed
    /\ args = NoArgs
    /\ ret = NoRet

InterpretEvolution ==
    /\ parsed' = [mode |-> "evolution"] @@ parseEvolutionResponse(rawText)
    /\ UNCHANGED <<storeVars, gitVars, tasks, started, finished, last, rawText,
                   callVars>>

InterpretPattern ==
    /\ parsed' = [mode |-> "pattern"] @@ parsePatternResponse(rawText)
    /\ UNCHANGED <<storeVars, gitVars, tasks, started, finished, last, rawText,
                   callVars>>

InterpretArchitectural ==
    /\ parsed' = [mode |-> "architecture"] @@ parseArchitecturalResponse(rawText)
    /\ UNCHANGED <<storeVars, gitVars, tasks, started, finished, last, rawText,
                   callVars>>

NextParse == InterpretEvolution \/ InterpretPattern \/ InterpretArchitectural

SpecParse == InitParse /\ [][NextParse]_vars

-----------------------------------------------------------------------------
(* Specification of the analysis entry points over ingested repositories  *)

InitAnalyze == Init /\ unreadable = {} /\ unlistable = {}

\* the walk an upload starts is detached and stays pending here: an entry
\* point reads and writes no variable a walk step writes
NextAnalyze ==
    \/ \E path \in {"repo", "plain"} : Upload(path)
    \/ \E id \in RepoIdInputs, f \in FilePaths, reply \in Replies :
          analyzeEvolution(id, f, reply)
    \/ \E id \in RepoIdInputs, f \in FilePaths, reply \in Replies :
          analyzePatterns(id, f, reply)
    \/ \E id \in RepoIdInputs, reply \in Replies :
          analyzeArchitecturalDecisions(id, reply)

SpecAnalyze == InitAnalyze /\ [][NextAnalyze]_vars

-----------------------------------------------------------------------------
(* Specification of commit selection over a stored history                 *)

\* the numbers of stored commits at and around the two caps
StoredCounts ==
    UNION {{b + k : k \in 0..MaxOver} : b \in {0, QueryCap, CommitFetchLimit}}

\* the Commit row a walk stores for commit c under row id `id`
WalkedRow(id, repoId, c) ==
    [id |-> id] @@ [commitDataOf(repoId, c) EXCEPT
                      !.files_changed = DiffSummary(c).files,
                      !.insertions = DiffSummary(c).insertions,
                      !.deletions = DiffSummary(c).deletions]

NoRange == [given |-> FALSE, from |-> 0, to |-> 0]

\* instants at the ends of the stored histories and inside them
RangeDates == {2, 3, 150, 502}

EvolutionQueries ==
    {[fn |-> "analyzeEvolution", repoId |-> 1, filePath |-> NULL, timeRange |-> r] :
        r \in {NoRange} \cup {[given |-> TRUE, from |-> a, to |-> b] : a, b \in RangeDates}}
      \cup {[fn |-> "analyzeEvolution", repoId |-> 1, filePath |-> "f1",
             timeRange |-> NoRange]}

\* the pattern and architecture analyses of the stored repository
ContextQueries ==
    {[fn |-> "analyzePatterns", repoId |-> 1, filePath |-> f] : f \in {NULL, "f1"}}
      \cup {[fn |-> "analyzeArchitecturalDecisions", repoId |-> 1]}

\* a repository whose walk has ended: the root commit was skipped, the other
\* commits are stored, and no name-status listing could be read
InitQuery ==
    /\ \E n \in StoredCounts :
          /\ nCommits = n + 1
          /\ commits = {WalkedRow(c, 1, c) : c \in 2..(n + 1)}
          /\ unlistable = 2..(n + 1)
          /\ nextId = n + 2
          /\ repositories = {[id |-> 1, name |-> "name", path |-> "repo",
                              last_analyzed |-> NULL, total_commits |-> n + 1]}
    /\ fileChanges = {}
    /\ analyses = {}
    /\ unreadable = {}
    /\ tasks = [t \in Workers |-> IdleTask]
    /\ started = 1
    /\ finished = <<>>
    /\ last = NoCall
    /\ rawText = <<>>
    /\ parsed = NotParsed
    /\ args \in EvolutionQueries \cup ContextQueries
    /\ ret = NoRet

NextQuery == QueryCommits \/ PatternCommits \/ ArchitecturalCommits

SpecQuery == InitQuery /\ [][NextQuery]_vars

-----------------------------------------------------------------------------
(* Specification of the Snapshot Collector over a working tree             *)

\* numbers of files of a kind: few, and at and around the cap
FileCounts == (0..MaxOver) \cup ((SnapshotCap - 1)..(SnapshotCap + MaxOver))

KeyFile(k) ==
    CASE k = 1 -> <<"README", ".md">>
      [] k = 2 -> <<"Dockerfile">>
      [] k = 3 -> <<"src/", "app", "lication", ".ts">>
      [] OTHER -> <<"src/", "index", ToString(k), ".ts">>

OtherFile(k) ==
    CASE k = 1 -> <<"docs/", "guide", ".md">>
      [] k = 2 -> <<"src/", "util", ".TS">>
      [] OTHER -> <<"src/", "util", ToString(k), ".py">>

IgnoredFiles ==
    << <<"node_modules/", "index", ".js">>, <<"logo", ".png">>, <<"dist/", "main", ".js">>,
       <<"docs/", "guide", ".MD">>, <<".ts">> >>

\* the listing of git ls-files: nk key files and nn other files in one of
\* three orders, among files that are not kept
ListingOf(nk, nn, order) ==
    LET keys == [k \in 1..nk |-> KeyFile(k)]
        others == [k \in 1..nn |-> OtherFile(k)]
    IN CASE order = "keysFirst" -> keys \o IgnoredFiles \o others
         [] order = "keysLast" -> others \o IgnoredFiles \o keys
         [] OTHER -> SubSeq(others, 1, nn \div 2) \o keys \o IgnoredFiles
                        \o SubSeq(others, nn \div 2 + 1, nn)

TextContent == [readable |-> TRUE, length |-> 40, control |-> 0, lines |-> 3]

\* contents that are not kept, and contents at the edge of being kept
OddContents ==
    { [readable |-> FALSE, length |-> 0, control |-> 0, lines |-> 0],
      [readable |-> TRUE, length |-> 40, control |-> 4, lines |-> 1],
      [readable |-> TRUE, length |-> 40, control |-> 3, lines |-> 1],
      [readable |-> TRUE, length |-> SizeCeiling, control |-> 0, lines |-> 2000],
      [readable |-> TRUE, length |-> SizeCeiling - 1, control |-> 0, lines |-> 2000],
      [readable |-> TRUE, length |-> SizeCeiling + 1, control |-> 0, lines |-> 2000] }

InitSnapshot ==
    /\ repositories = {}
    /\ commits = {}
    /\ fileChanges = {}
    /\ analyses = {}
    /\ nextId = 1
    /\ nCommits = 1
    /\ unreadable = {}
    /\ unlistable = {}
    /\ tasks = [t \in Workers |-> IdleTask]
    /\ started = 0
    /\ finished = <<>>
    /\ last = NoCall
    /\ rawText = <<>>
    /\ parsed = NotParsed
    /\ \E nk \in FileCounts, nn \in FileCounts,
          order \in {"keysFirst", "keysLast", "mixed"}, ok \in BOOLEAN,
          odd \in OddContents, at \in {0, 1, 2} :
          /\ ok \/ (nk = 1 /\ nn = 1 /\ order = "mixed" /\ at = 0)
          /\ at = 0 => odd = CHOOSE o \in OddContents : TRUE
          /\ LET files == ListingOf(nk, nn, order) IN
             args = [fn |-> "analyzeCodebase",
                     listing |-> [ok |-> ok, files |-> files],
                     contentOf |-> [f \in Range(files) |->
                                      IF (at = 1 /\ f = KeyFile(1)) \/ (at = 2 /\ f = OtherFile(1))
                                      THEN odd ELSE TextContent]]
    /\ ret = NoRet

NextSnapshot == CollectSnapshot

SpecSnapshot == InitSnapshot /\ [][NextSnapshot]_vars

-----------------------------------------------------------------------------
(* Specification of language detection over a working tree                 *)

TreeFilesPool ==
    { <<"a", ".ts">>, <<"b", ".py">>, <<"c", ".ts">>, <<"README", ".md">>,
      <<"logo", ".png">>, <<"Makefile">>, <<"src/", "d", ".TS">>,
      <<"node_modules/", "e", ".js">> }

RECURSIVE TreesUpTo(_)
\* the listings of at most n files of the pool
TreesUpTo(n) ==
    IF n = 0 THEN {<<>>}
    ELSE LET shorter == TreesUpTo(n - 1)
         IN shorter \cup {Append(t, f) : t \in {u \in shorter : Len(u) = n - 1},
                                         f \in TreeFilesPool}

Trees ==
    TreesUpTo(MaxTreeLen)
        \cup {<< <<"a", ".ts">>, <<"b", ".py">>, <<"c", ".ts">>, <<"README", ".md">> >>}

InitLanguages ==
    /\ repositories = {}
    /\ commits = {}
    /\ fileChanges = {}
    /\ analyses = {}
    /\ nextId = 1
    /\ nCommits = 1
    /\ unreadable = {}
    /\ unlistable = {}
    /\ tasks = [t \in Workers |-> IdleTask]
    /\ started = 0
    /\ finished = <<>>
    /\ last = NoCall
    /\ rawText = <<>>
    /\ parsed = NotParsed
    /\ args \in {[fn |-> "detectLanguages", tree |-> t] : t \in Trees}
    /\ ret = NoRet

NextLanguages == DetectLanguages

SpecLanguages == InitLanguages /\ [][NextLanguages]_vars

-----------------------------------------------------------------------------
(* Properties of the history extraction *)

\* the listed commits of an ended walk for which some diff fails
Failing(r) == {c \in Range(r.log) : DiffFails(c) \/ c \in unlistable}

\* walks a and b of finished are two runs in a row over one repository
InARow(a, b) ==
    /\ a < b
    /\ finished[a].repo = finished[b].repo
    /\ finished[a].log = finished[b].log
    /\ finished[a].outcome = "done" /\ finished[b].outcome = "done"
    /\ finished[a].solo /\ finished[b].solo
    /\ \A k \in (a + 1)..(b - 1) : finished[k].repo # finished[a].repo

\* the FileChange rows linked to Commit row x are those of the listing of c
HasFileChangesOf(x, c) ==
    /\ Cardinality(FileChangesOf(x.id)) = Len(NameStatus(c))
    /\ \A k \in 1..Len(NameStatus(c)) :
          \E f \in FileChangesOf(x.id) :
             /\ f.file_path = NameStatus(c)[k][2]
             /\ f.change_type = changeTypeOf(NameStatus(c)[k][1])

\* C1: running the extraction twice in a row over the unchanged repository
\* and the same repoId leaves one Commit row per hash, and every field of
\* every Commit row after the second run equals its value after the first.
C1_RerunLeavesRowsUnchanged ==
    \A a, b \in 1..Len(finished) :
        InARow(a, b) =>
            /\ \A x, y \in finished[b].snap : x.hash = y.hash => x = y
            /\ finished[b].snap = finished[a].snap

\* C2: a root commit in the log causes no diff failure: it is persisted as
\* a Commit row and each file it contains as a FileChange row of kind
\* 'added' linked to that row.
C2_RootCommitPersisted ==
    \A k \in 1..Len(finished) :
        LET r == finished[k] IN
        (r.outcome = "done" /\ r.solo) =>
            \A c \in Range(r.log) :
                (ParentsOf(c) = <<>> /\ c \notin unreadable \cup unlistable) =>
                    \E x \in r.snap :
                        /\ x.hash = HashOf(c)
                        /\ Cardinality(FileChangesOf(x.id)) = Len(TreeFiles(c))
                        /\ \A p \in Range(TreeFiles(c)) :
                              \E f \in FileChangesOf(x.id) :
                                  f.file_path = p /\ f.change_type = "added"

\* C3: when the diff computation fails for exactly one commit K of the log,
\* one run of the extraction is not ended by that failure and persists a
\* Commit row for every other listed commit with all its FileChange rows.
C3_FailureIsolation ==
    \A k \in 1..Len(finished) :
        LET r == finished[k] IN
        (r.solo /\ r.log # <<>> /\ Cardinality(Failing(r)) = 1) =>
            /\ r.outcome = "done"
            /\ \A c \in Range(r.log) \ Failing(r) :
                  \E x \in r.snap : x.hash = HashOf(c) /\ HasFileChangesOf(x, c)

\* a walk with one failing commit has ended and has persisted another commit
C3_Witness ==
    \E k \in 1..Len(finished) :
        /\ finished[k].solo
        /\ Cardinality(Failing(finished[k])) = 1
        /\ finished[k].outcome = "done"
        /\ Len(finished[k].log) >= 2
        /\ \E c \in Failing(finished[k]) : c # finished[k].log[Len(finished[k].log)]

\* C4: every FileChange row's commit_id is the id of an existing Commit row
\* and every Commit row's repo_id is the id of an existing Repository row.
C4_ReferentialIntegrity ==
    /\ \A f \in fileChanges : \E x \in commits : x.id = f.commit_id
    /\ \A x \in commits : x.repo_id \in RepoIds

-----------------------------------------------------------------------------
(* Properties of the Response Interpreter *)

IsSeqOfObjects(v) ==
    /\ IsArray(v)
    /\ \A k \in 1..Len(Items(v)) : IsObject(Items(v)[k])

\* sub occurs in s as a run of consecutive symbols
Contains(s, sub) ==
    \E a \in 0..(Len(s) - Len(sub)) : SubSeq(s, a + 1, a + Len(sub)) = sub

\* C5: for every response text the interpreter returns a value of the
\* mode's result shape: an object for evolution, a sequence of objects for
\* pattern and architecture.
C5_ResultShape ==
    /\ parsed.mode = "evolution" => IsObject(parsed.value)
    /\ parsed.mode \in {"pattern", "architecture"} => IsSeqOfObjects(parsed.value)

\* v is the one-element pattern result that reports the unparsable text raw
IsPatternError(v, raw) ==
    /\ IsArray(v)
    /\ Len(Items(v)) = 1
    /\ LET e == Items(v)[1] IN
       /\ IsObject(e)
       /\ HasField(e, <<"pattern">>) /\ Field(e, <<"pattern">>) = Str(<<"Analysis Error">>)
       /\ HasField(e, <<"impact">>) /\ Field(e, <<"impact">>) = Str(<<"low">>)
       /\ HasField(e, <<"evolution">>)
       /\ IsArray(Field(e, <<"evolution">>))
       /\ \E k \in 1..Len(Items(Field(e, <<"evolution">>))) :
             LET x == Items(Field(e, <<"evolution">>))[k] IN
             x[1].t = "str" /\ Contains(x[1].s, Take(raw, PatternRawChars))

\* C6 as claimed: any string that is not JSON makes parsePatternResponse
\* return, without raising, exactly one element with pattern "Analysis
\* Error", impact "low" and the first 200 characters of the text in evolution.
C6_NonJsonGivesPatternError ==
    (parsed.mode = "pattern" /\ ~JSONparse(rawText).ok) =>
        (~parsed.threw /\ IsPatternError(parsed.value, rawText))

\* C6 amended: any string whose bracket-delimited candidate (from the first
\* "[" to the last "]" after it, or the whole string when there is no such
\* pair) is not JSON makes parsePatternResponse return, without raising,
\* exactly one element with pattern "Analysis Error", impact "low" and the
\* first 200 characters of the text in evolution.
C6_UnparsableCandidateGivesPatternError ==
    (parsed.mode = "pattern" /\ ~JSONparse(JsonString(rawText, "[", "]")).ok) =>
        (~parsed.threw /\ IsPatternError(parsed.value, rawText))

\* pattern mode has answered a text longer than 200 symbols with the fallback
C6_Witness ==
    /\ parsed.mode = "pattern"
    /\ ~JSONparse(JsonString(rawText, "[", "]")).ok
    /\ Len(rawText) > PatternRawChars
    /\ ~parsed.threw

\* C7: a response text that is a well-formed JSON array of
\* architecture-decision objects is returned by parseArchitecturalResponse
\* as exactly those objects, in order, with every field unchanged.
C7_DecisionsRoundTrip ==
    (parsed.mode = "architecture" /\ rawText \in AllDecisionTexts) =>
        \A ds \in DecisionArrays :
            rawText \in DecisionTexts(ds) => (~parsed.threw /\ parsed.value = Arr(ds))

\* two different decision objects have been parsed from their array
C7_Witness ==
    /\ parsed.mode = "architecture"
    /\ \E ds \in DecisionArrays :
          /\ Len(ds) = 2 /\ ds[1] # ds[2]
          /\ rawText \in DecisionTexts(ds)
          /\ parsed.value = Arr(ds)

-----------------------------------------------------------------------------
(* Properties of the analysis entry points                                 *)

\* the step is an invocation of an entry point on a stored repository
Invoked == last'.seq # last.seq /\ last'.repoId \in RepoIds

\* the delimiters of the span each mode looks for
OpenOf(op) == IF op = "evolution" THEN "{" ELSE "["
CloseOf(op) == IF op = "evolution" THEN "}" ELSE "]"

ModeFallback(op, text) ==
    CASE op = "evolution" -> EvolutionFallback(text)
      [] op = "pattern" -> PatternFallback(text)
      [] OTHER -> ArchitecturalFallback(text)

\* the answers that are not JSON as a whole
NotJson == {t \in BoundaryTexts : ~JSONparse(t).ok}

\* the answers whose candidate span (or whole text without a span) is not JSON
Unparsable ==
    [op \in Modes |->
        {t \in BoundaryTexts : ~JSONparse(JsonString(t, OpenOf(op), CloseOf(op))).ok}]

\* the serialized record of a fallback: the fallback itself, for an
\* evolution analysis with the question in front of its fields
FallbackText ==
    [op \in Modes |->
        [t \in BoundaryTexts |->
            JSONstringify(IF op = "evolution"
                          THEN Obj(<<[k |-> <<"query">>, v |-> Str(Question)]>>
                                      \o Members(EvolutionFallback(t)))
                          ELSE ModeFallback(op, t))]]

\* the step returned the fallback and saved one record of the mode with it
FallbackReturnedAndSaved ==
    /\ last'.outcome = "ok"
    /\ last'.value = ModeFallback(last'.op, last'.reply.text)
    /\ \E row \in analyses' \ analyses :
          /\ analyses' = analyses \cup {row}
          /\ row.repo_id = last'.repoId
          /\ row.analysis_type = last'.op
          /\ row.result = FallbackText[last'.op][last'.reply.text]

\* C8 as claimed: a successful call whose text is not JSON makes every entry
\* point return the mode's fallback without raising and save one Analysis
\* record of the mode holding the fallback.
C8_NonJsonTextGivesFallback ==
    [][(Invoked /\ last'.reply.kind = "text" /\ last'.reply.text \in NotJson)
          => FallbackReturnedAndSaved]_vars

\* C8 amended: a successful call whose text has no parsable candidate (the
\* span from the first opening to the last closing delimiter of the mode, or
\* the whole text when there is no span) makes every entry point return the
\* mode's fallback without raising and save one Analysis record of the mode
\* holding the fallback.
C8_UnparsableCandidateGivesFallback ==
    [][(Invoked /\ last'.reply.kind = "text"
           /\ last'.reply.text \in Unparsable[last'.op])
          => FallbackReturnedAndSaved]_vars

\* an evolution analysis has answered prose with its fallback and saved it
C8_Witness ==
    /\ last.op = "evolution"
    /\ last.reply.kind = "text"
    /\ last.reply.text \in Unparsable["evolution"]
    /\ last.outcome = "ok"
    /\ \E row \in analyses : row.id = last.saved /\ row.analysis_type = "evolution"

\* C9: an entry point given a repoId that is not stored fails with
\* "Repository not found", which its caller receives as a failure, without
\* calling the text-generation boundary and without saving an Analysis record.
C9_UnknownRepositoryNotFound ==
    [][(last'.seq # last.seq /\ last'.repoId \notin RepoIds)
          => /\ last'.outcome = "error"
             /\ last'.error = "Repository not found"
             /\ last'.response.status = 500
             /\ last'.calls = 0
             /\ analyses' = analyses]_vars

\* an entry point was given an unknown repoId while another one is stored
C9_Witness ==
    /\ last.seq > 0
    /\ repositories # {}
    /\ last.repoId \notin RepoIds
    /\ last.error = "Repository not found"

\* C10: when the call of the text-generation boundary errors, the entry
\* point has called it exactly once, fails with the mode's analysis-failed
\* error, and saves no Analysis record.
C10_BoundaryErrorNotRetried ==
    [][(Invoked /\ last'.reply.kind = "error")
          => /\ last'.calls = 1
             /\ last'.outcome = "error"
             /\ last'.error = FailureMessage(last'.op)
             /\ last'.response.status = 500
             /\ analyses' = analyses]_vars

\* an entry point has failed on an erroring boundary after its single call
C10_Witness ==
    /\ last.reply.kind = "error"
    /\ last.error = FailureMessage(last.op)
    /\ last.calls = 1
    /\ last.saved = 0

-----------------------------------------------------------------------------
(* Properties of commit selection                                          *)

\* the position of x in the sequence s
PositionIn(s, x) == CHOOSE k \in 1..Len(s) : s[k] = x

InRange(c) == c.date >= args.timeRange.from /\ c.date <= args.timeRange.to

\* C11: with a date range [from, to], every commit placed in the evolution
\* context has from <= date <= to, and the commits of the context stand in
\* the order they have in the unfiltered list.
C11_ContextWithinRangeInOrder ==
    (ret.fn = "analyzeEvolution" /\ args.timeRange.given) =>
        /\ \A k \in 1..Len(ret.context) :
              InRange(ret.context[k]) /\ ret.context[k] \in Range(ret.fetched)
        /\ \A k \in 1..(Len(ret.context) - 1) :
              PositionIn(ret.fetched, ret.context[k])
                 < PositionIn(ret.fetched, ret.context[k + 1])

\* a range that leaves out stored commits on both sides has filled a context
C11_Witness ==
    /\ ret.fn = "analyzeEvolution"
    /\ args.timeRange.given
    /\ Len(ret.context) >= 2
    /\ \E x \in Range(ret.fetched) : x.date < args.timeRange.from
    /\ \E x \in Range(ret.fetched) : x.date > args.timeRange.to

\* the stored commits of the queried repository that match the query
Matching ==
    {x \in commits : x.repo_id = args.repoId /\ (args.timeRange.given => InRange(x))}

\* C12: the commits handed to context assembly are the 100 most recent of
\* all stored commits matching the filter (all of them when fewer than 100
\* match), most recent first.
C12_CapAfterFilter ==
    ret.fn = "analyzeEvolution" =>
        /\ Len(ret.filtered) = Min(QueryCap, Cardinality(Matching))
        /\ Range(ret.filtered) \subseteq Matching
        /\ \A k \in 1..(Len(ret.filtered) - 1) :
              ret.filtered[k].date >= ret.filtered[k + 1].date
        /\ \A x \in Matching \ Range(ret.filtered) :
              \A k \in 1..Len(ret.filtered) : x.date <= ret.filtered[k].date

\* commit c changed the file at path: a line of its listing names the path
\* (the date of a stored row is the number of its commit)
ChangedFile(c, path) ==
    \E k \in 1..Len(NameStatus(c)) :
        \E m \in 2..Len(NameStatus(c)[k]) : NameStatus(c)[k][m] = path

\* C22: with a file-path filter, the commits placed in the evolution
\* context are only commits that changed that file.
C22_ContextOnlyCommitsOfFile ==
    (ret.fn = "analyzeEvolution" /\ args.filePath # NULL) =>
        \A k \in 1..Len(ret.context) : ChangedFile(ret.context[k].date, args.filePath)

\* the number of summaries a mode places in its context at most
ContextCapOf(fn) == IF fn = "analyzePatterns" THEN 30 ELSE 20

\* C27: the evolution and the architecture context hold at most 20 commit
\* summaries and the pattern context at most 30; the summaries are those of
\* the first entries of the mode's candidate list in unchanged order, and
\* the hash of a summary is the first 8 characters of the commit's hash.
C27_ContextSummaries ==
    ret.fn # "none" =>
        /\ Len(ret.summaries) <= ContextCapOf(ret.fn)
        /\ Len(ret.summaries) = Min(ContextCapOf(ret.fn), Len(ret.filtered))
        /\ \A k \in 1..Len(ret.summaries) :
              /\ ret.summaries[k].date = ret.filtered[k].date
              /\ ret.summaries[k].message = ret.filtered[k].message
              /\ Len(ret.summaries[k].hash) = 8
              /\ \A m \in 1..8 :
                    ret.summaries[k].hash[m] = HashChars(ret.filtered[k].date)[m]

\* each mode has cut a longer candidate list down to its cap
C27_Witness ==
    /\ ret.fn \in {"analyzePatterns", "analyzeArchitecturalDecisions"}
    /\ Len(ret.filtered) > ContextCapOf(ret.fn)
    /\ Len(ret.summaries) = ContextCapOf(ret.fn)
    /\ ret.summaries[1].hash # ret.summaries[2].hash

-----------------------------------------------------------------------------
(* Properties of the Snapshot Collector                                    *)

\* the tracked files that pass the denylist and the allowlist
Eligible == {f \in Range(args.listing.files) : IsImportant(f)}

\* C13: the collected fileContents never has more than 50 entries, and when
\* more than 50 files are eligible a file that is not a key file is selected
\* only if every eligible key file is selected.
C13_SnapshotCapKeyFilesFirst ==
    ret.fn = "analyzeCodebase" =>
        /\ Len(ret.fileContents) <= SnapshotCap
        /\ (Cardinality(Eligible) > SnapshotCap
              /\ \E f \in Range(ret.selected) : ~isKeyFile(f))
             => \A f \in Eligible : isKeyFile(f) => f \in Range(ret.selected)

\* more than 50 files were eligible, key files were listed last, and both
\* all key files and some other files were selected
C13_Witness ==
    /\ ret.fn = "analyzeCodebase"
    /\ Cardinality(Eligible) > SnapshotCap
    /\ ~isKeyFile(args.listing.files[1])
    /\ \E f \in Range(ret.selected) : ~isKeyFile(f)
    /\ \E f \in Range(ret.selected) : isKeyFile(f)
    /\ Len(ret.fileContents) = SnapshotCap

\* the paths of the entries of the collected fileContents
CollectedPaths == {ret.fileContents[k].path : k \in 1..Len(ret.fileContents)}

\* C28: a selected file that can be read and is text is left out of the
\* snapshot for its size only when its content has more than 100,000
\* characters: such a file of exactly 100,000 characters or fewer is in
\* fileContents.
C28_LeftOutOnlyAboveCeiling ==
    ret.fn = "analyzeCodebase" =>
        \A f \in Range(ret.selected) :
            (/\ args.contentOf[f].readable
             /\ isTextFile(args.contentOf[f])
             /\ args.contentOf[f].length <= 100000) => f \in CollectedPaths

-----------------------------------------------------------------------------
(* Properties of language detection                                        *)

\* the languages of the table that the extensions of the walked files name
LanguagesOfTree ==
    {languageMap[extname(f)] :
        f \in {g \in Range(getFileList(args.tree)) : extname(g) \in DOMAIN languageMap}}

\* C14: detectLanguages returns, without duplicates, exactly the languages
\* the table gives for the extensions of the files; files with an
\* extension that is not in the table add nothing.
C14_LanguagesAreASet ==
    ret.fn = "detectLanguages" =>
        /\ Range(ret.languages) = LanguagesOfTree
        /\ Len(ret.languages) = Cardinality(LanguagesOfTree)
        /\ args.tree = << <<"a", ".ts">>, <<"b", ".py">>, <<"c", ".ts">>, <<"README", ".md">> >>
              => Range(ret.languages) = {"TypeScript", "Python", "Markdown"}

\* a.ts, b.py, c.ts and README.md have given three languages
C14_Witness ==
    /\ ret.fn = "detectLanguages"
    /\ args.tree = << <<"a", ".ts">>, <<"b", ".py">>, <<"c", ".ts">>, <<"README", ".md">> >>
    /\ Len(ret.languages) = 3

-----------------------------------------------------------------------------
(* Properties of ingestion *)

\* C15: the upload returns the Repository metadata without waiting for the
\* walk: in the step that answers, the Repository row exists, the walk of
\* that row has been started and has not ended, and no later step (progress
\* or failure of a walk) changes the response.
C15_ResponseNotWaitingForWalk ==
    [][IF repositories' # repositories
       THEN \E row \in repositories' \ repositories :
               /\ ret'.status = 200
               /\ ret'.repository = row
               /\ \A t \in Workers : Active(t) => tasks[t].repo # row.id
               /\ \E t \in Workers : tasks'[t].repo = row.id /\ tasks'[t].pc = "log"
               /\ \A k \in 1..Len(finished') : finished'[k].repo # row.id
       ELSE ret' = ret]_vars

\* a response stands while one walk has failed and another has completed
C15_Witness ==
    /\ ret.fn = "upload"
    /\ ret.status = 200
    /\ \E a, b \in 1..Len(finished) :
          /\ finished[a].outcome = "rejected"
          /\ finished[b].outcome = "done" /\ finished[b].snap # {}

\* C16: uploading a location that is not a repository answers with no
\* commits and the one author "Unknown" and creates the Repository row; the
\* walk started for it fails, writes no Commit row and leaves the answer.
C16_NonRepositoryIngested ==
    /\ (ret.fn = "upload" /\ args.path = "plain") =>
          /\ ret.status = 200
          /\ ret.totalCommits = 0
          /\ ret.authors = <<"Unknown">>
          /\ ret.repository \in repositories
    /\ \A r \in repositories :
          r.path = "plain" =>
             /\ r.total_commits = 0
             /\ CommitsOf(r.id) = {}
             /\ \A k \in 1..Len(finished) :
                   finished[k].repo = r.id => finished[k].outcome = "rejected"

\* the walk of an uploaded non-repository has failed
C16_Witness ==
    /\ ret.fn = "upload"
    /\ args.path = "plain"
    /\ \E k \in 1..Len(finished) :
          finished[k].repo = ret.repository.id /\ finished[k].outcome = "rejected"

\* C17: after a walk of a repository has completed with no commit failing,
\* the Repository row's total_commits is the number of Commit rows stored
\* for that repository.
C17_TotalCommitsIsRowCount ==
    \A k \in 1..Len(finished) :
        LET r == finished[k] IN
        (r.outcome = "done" /\ r.solo /\ r.log # <<>> /\ Failing(r) = {}) =>
            \A row \in getRepository(r.repo) :
                row.total_commits = Cardinality(r.snap)

\* some walk of repository id has run to its end
PassCompleted(id) ==
    \E k \in 1..Len(finished) : finished[k].repo = id /\ finished[k].outcome = "done"

\* C18: a Repository row's last_analyzed is unset until a full pass over
\* its history completes and is set to a timestamp once one has.
C18_LastAnalyzedSetOnCompletion ==
    \A r \in repositories : (r.last_analyzed # NULL) <=> PassCompleted(r.id)

\* git diff --name-status prints a rename as the status R<score>, the path
\* before the rename and the path after it
IsRenameLine(parts) == Len(parts) = 3 /\ parts[1] = "R100"

\* C20: a FileChange row has old_path set exactly when its change_type is
\* 'renamed'; then old_path is the path before the rename and file_path the
\* path after it.
C20_OldPathOnlyForRenames ==
    \A f \in fileChanges :
        /\ (f.old_path # NULL) <=> (f.change_type = "renamed")
        /\ f.change_type = "renamed" =>
              \E c \in 1..nCommits : \E k \in 1..Len(NameStatus(c)) :
                  /\ IsRenameLine(NameStatus(c)[k])
                  /\ f.old_path = NameStatus(c)[k][2]
                  /\ f.file_path = NameStatus(c)[k][3]

-----------------------------------------------------------------------------
(* Properties of the Analysis records                                      *)

\* C19: Analysis records are append-only: an invocation of an entry point
\* that returns a result adds exactly one new record, under an id no record
\* had, and no step changes or removes a record that exists; two identical
\* runs leave two records.
C19_AnalysisAppendOnly ==
    [][/\ analyses \subseteq analyses'
       /\ (last'.seq # last.seq /\ last'.outcome = "ok") =>
             \E row \in analyses' \ analyses :
                /\ analyses' = analyses \cup {row}
                /\ Cardinality(analyses') = Cardinality(analyses) + 1
                /\ \A old \in analyses : old.id # row.id
       /\ (last'.seq = last.seq \/ last'.outcome # "ok") => analyses' = analyses]_vars

\* two runs of one analysis on one repository with one answer have left two
\* records that differ in their id only
C19_Witness ==
    \E a, b \in analyses :
        /\ a.id # b.id
        /\ [a EXCEPT !.id = 0] = [b EXCEPT !.id = 0]
        /\ last.seq = 2
        /\ last.outcome = "ok"

-----------------------------------------------------------------------------
(* Properties of the persisted rows                                        *)

\* the commit of the working repository a Commit row was written for
CommitOfRow(x) == CHOOSE c \in 1..nCommits : HashOf(c) = x.hash

\* C21: the parents field of every persisted Commit row is the ordered list
\* of the parent references of its commit (empty for a root commit).
C21_ParentsAreParentReferences ==
    \A x \in commits : x.parents = ParentsOf(CommitOfRow(x))

-----------------------------------------------------------------------------
(* Properties of the extraction of JSON from a response                    *)

\* the spans of text that are a well-formed JSON object (evolution) or
\* array (pattern, architecture)
JsonSpans(op, text) ==
    {sp \in {a \in 1..Len(text) : text[a] = OpenOf(op)}
              \X {b \in 1..Len(text) : text[b] = CloseOf(op)} :
        sp[1] < sp[2] /\ JSONparse(SubSeq(text, sp[1], sp[2])).ok}

\* those that have other text before or after them
JsonInProse(op, text) ==
    {sp \in JsonSpans(op, text) : sp[1] > 1 \/ sp[2] < Len(text)}

\* C23: when the response text holds a well-formed JSON array (pattern,
\* architecture) or object (evolution) with other text before or after it,
\* the interpreter returns the parsed value of a JSON substring of the text
\* and not the fallback.
C23_JsonInProseIsExtracted ==
    (parsed.mode \in Modes /\ JsonInProse(parsed.mode, rawText) # {}) =>
        /\ ~parsed.threw
        /\ \E sp \in JsonSpans(parsed.mode, rawText) :
              parsed.value = JSONparse(SubSeq(rawText, sp[1], sp[2])).v

-----------------------------------------------------------------------------
(* Properties of the classification of file changes                        *)

\* the first character of a status code
FirstChar(status) == IF status = "R100" THEN "R" ELSE status

\* the kind the first character of a status code stands for
KindOf(ch) ==
    CASE ch = "A" -> "added"
      [] ch = "M" -> "modified"
      [] ch = "D" -> "deleted"
      [] ch = "R" -> "renamed"
      [] OTHER -> "modified"

\* the FileChange rows linked to row id are one per line of the listing of
\* c, each with the path and the kind of its line
OneRowPerLine(id, c) ==
    /\ Cardinality(FileChangesOf(id)) = Len(NameStatus(c))
    /\ \A k \in 1..Len(NameStatus(c)) :
          Cardinality({f \in FileChangesOf(id) :
                          /\ f.file_path = NameStatus(c)[k][2]
                          /\ f.change_type = KindOf(FirstChar(NameStatus(c)[k][1]))}) = 1

\* C24: the kind of a changed file follows the first character of its
\* status code (A added, M modified, D deleted, R renamed, any other
\* modified), and a walk that has ended has written exactly one FileChange
\* row per line of the listing of every commit it stored.
C24_KindFromStatusOneRowPerLine ==
    /\ \A f \in fileChanges :
          \E c \in 1..nCommits : \E k \in 1..Len(NameStatus(c)) :
              /\ f.file_path = NameStatus(c)[k][2]
              /\ f.change_type = KindOf(FirstChar(NameStatus(c)[k][1]))
    /\ \A n \in 1..Len(finished) :
          LET r == finished[n] IN
          (r.outcome = "done" /\ r.solo) =>
              \A c \in Range(r.log) \ Failing(r) :
                  \E x \in r.snap : x.hash = HashOf(c) /\ OneRowPerLine(x.id, c)

\* a walk has ended that stored commits with a rename, a deletion and a
\* status code that has no case of its own
C24_Witness ==
    \E n \in 1..Len(finished) :
        /\ finished[n].outcome = "done"
        /\ Failing(finished[n]) = {1}
        /\ \E f \in fileChanges : f.change_type = "renamed"
        /\ \E f \in fileChanges : f.change_type = "deleted"
        /\ \E x \in finished[n].snap : \E f \in FileChangesOf(x.id) :
              f.file_path = "f3" /\ f.change_type = "modified"

-----------------------------------------------------------------------------
(* Properties of the order of persistence.  Row ids are handed out in the  *)
(* order of the writes, so a row written earlier has the smaller id.       *)

\* the Commit row an ended walk left for commit c
RowOf(r, c) == CHOOSE x \in r.snap : x.hash = HashOf(c)

\* the line of the listing of c that names path
LineOf(c, path) == CHOOSE k \in 1..Len(NameStatus(c)) : NameStatus(c)[k][2] = path

\* the positions of the log of r whose commits did not fail
StoredAt(r) == {a \in 1..Len(r.log) : r.log[a] \notin Failing(r)}

\* C25: within one run, Commit rows are persisted in the order of the log,
\* and every FileChange row of a commit is persisted after that commit's
\* Commit row and before the next commit's Commit row, in the order of the
\* diff listing.
C25_PersistedInLogOrder ==
    \A n \in 1..Len(finished) :
        LET r == finished[n] IN
        (r.outcome = "done" /\ r.solo) =>
            /\ \A a \in StoredAt(r) : \E x \in r.snap : x.hash = HashOf(r.log[a])
            /\ \A a, b \in StoredAt(r) :
                  a < b =>
                     /\ RowOf(r, r.log[a]).id < RowOf(r, r.log[b]).id
                     /\ \A f \in FileChangesOf(RowOf(r, r.log[a]).id) :
                           f.id < RowOf(r, r.log[b]).id
            /\ \A a \in StoredAt(r) :
                  LET x == RowOf(r, r.log[a]) IN
                  \A f, g \in FileChangesOf(x.id) :
                     /\ x.id < f.id
                     /\ LineOf(r.log[a], f.file_path) < LineOf(r.log[a], g.file_path)
                           => f.id < g.id

\* a walk has ended that stored two commits with two file changes each
C25_Witness ==
    \E n \in 1..Len(finished) :
        LET r == finished[n] IN
        /\ r.outcome = "done" /\ r.solo
        /\ \E a, b \in StoredAt(r) :
              /\ a < b
              /\ Cardinality(FileChangesOf(RowOf(r, r.log[a]).id)) >= 2
              /\ Cardinality(FileChangesOf(RowOf(r, r.log[b]).id)) >= 2

-----------------------------------------------------------------------------
(* Properties of the termination of a walk                                 *)

\* a walk works on the entries of its log one after the other, each once,
\* and an ended walk over a listed log has worked on every entry of a log
\* of at most limit entries and has completed
AttemptsEachOnce ==
    /\ \A t \in Workers :
          Active(t) => tasks[t].tried = Take(tasks[t].log, Len(tasks[t].tried))
    /\ \A n \in 1..Len(finished) :
          LET r == finished[n] IN
          /\ r.outcome \in {"done", "rejected"}
          /\ r.outcome = "rejected" => r.tried = <<>>
          /\ r.outcome = "done" =>
                /\ r.tried = r.log
                /\ Len(r.log) <= r.limit
                /\ \A a, b \in 1..Len(r.tried) : r.tried[a] = r.tried[b] => a = b

\* C26: the history walk always terminates, whatever commits fail: it
\* works on each commit of the log exactly once, on at most limit commits,
\* and then completes; a walk started again does the same.
C26_WalkTerminates ==
    /\ []AttemptsEachOnce
    /\ \A t \in Workers : Active(t) ~> ~Active(t)

\* a second walk of a repository has completed over a log in which two
\* commits failed
C26_Witness ==
    \E a, b \in 1..Len(finished) :
        /\ a < b
        /\ finished[a].repo = finished[b].repo
        /\ finished[b].outcome = "done"
        /\ Cardinality(Failing(finished[b])) >= 2
        /\ Len(finished[b].log) >= 3
        /\ finished[b].tried = finished[b].log

-----------------------------------------------------------------------------
(* Properties of two walks of one repository in flight together            *)

\* the commits a walk that has ended listed and whose diff did not fail
Stored(r) == {c \in Range(r.log) : ~DiffFails(c)}

\* C29: when two walks of one repository interleave at their awaits, the
\* store never holds two Commit rows with the same (repo_id, hash), and once
\* both walks have ended every commit that a walk listed and that did not
\* fail has exactly one Commit row.
C29_OneRowPerHashWhenInterleaved ==
    /\ \A x, y \in commits : (x.repo_id = y.repo_id /\ x.hash = y.hash) => x = y
    /\ Len(finished) = 2 =>
          \A b \in 1..2 : \A c \in Stored(finished[b]) :
              Cardinality({x \in commits : x.repo_id = finished[b].repo
                                            /\ x.hash = HashOf(c)}) = 1

\* both walks have ended, and the rows show that they took turns: a
\* FileChange row of a Commit row that the other walk has replaced was
\* written after a Commit row that is still stored
C29_Witness ==
    /\ Len(finished) = 2
    /\ \A b \in 1..2 : finished[b].outcome = "done" /\ Stored(finished[b]) # {}
    /\ \E f \in fileChanges, x \in commits :
          /\ \A y \in commits : y.id # f.commit_id
          /\ f.commit_id < x.id
          /\ x.id < f.id

-----------------------------------------------------------------------------
(* Properties of the counts of a Commit row                                *)

\* no walk in flight is still writing the FileChange rows of Commit row x
Processed(x) ==
    \A t \in DOMAIN tasks : ~(tasks[t].pc = "fileChanges" /\ tasks[t].saved = x.id)

\* C30: for every Commit row whose processing has finished, the number of
\* FileChange rows linked to its id equals its files_changed, whatever runs
\* were made and whichever steps of its file changes failed.
C30_FileChangesMatchFilesChanged ==
    \A x \in commits :
        Processed(x) => Cardinality(FileChangesOf(x.id)) = x.files_changed

====
